---- MODULE Spec2Model ----
(***************************************************************************)
(* Recap delivery pipeline of insights-bot: the auto-recap time capsule    *)
(* handler, the summarize run it dispatches, and the Telegraph content     *)
(* paginator.                                                              *)
(*                                                                         *)
(* Spec      : firings of the handler; a dispatched run is in flight until *)
(*             it returns                                                  *)
(* SpecRun   : one dispatched summarize run, followed step by step         *)
(* SpecSplit : SplitContentIntoParts applied to bounded documents          *)
(* SpecSeries: the publication of one document as a page or a page series  *)
(* SpecDeliver: the delivery of the batches of a run to its targets         *)
(* SpecLimiter: the sends of the runs in flight and their rate limiters     *)
(***************************************************************************)
EXTENDS Integers, Sequences, FiniteSets, Bags, TLC

VARIABLES
    capsules,     \* [Chats -> Nat], capsules queued in the digger per chat
    testPending,  \* chat of the start-up test invocation still to run, 0 if none
    inflight,     \* [Chats -> Nat], summarize runs dispatched and not returned
    h,            \* frame of the current or most recent handler invocation
    run,          \* the summarize run followed step by step
    doc,          \* paginator: the document, a sequence of paragraph lengths
    fmtFails,     \* paginator: telegraph.ContentFormat fails on this input
    titleLen,     \* paginator: byte length of the page title
    idx,          \* paginator: index of the next paragraph of the loop
    parts,        \* paginator: the parts emitted so far
    currentPart,  \* paginator: the part under construction
    pc,           \* paginator: "off", "idle", "loop", "done"
    accessToken,  \* telegraph: the access token is configured
    rev,          \* telegraph: the revision of CreatePageSeries in use
    ser,          \* telegraph: frame of the publication of one document
    call,         \* telegraph: frame of the current CreatePage or EditPage call
    net,          \* telegraph: timing and size of the last remote request
    clock,        \* limiter: the time, in intervals of one second / 5
    limiters,     \* limiter: [Chats -> the rate limiter of the run of the chat]
    sends         \* limiter: the start times of the sends of the last second

splitVars == <<doc, fmtFails, titleLen, idx, parts, currentPart, pc>>
seriesVars == <<accessToken, rev, ser, call, net>>
limiterVars == <<clock, limiters, sends>>
telegraphVars == <<splitVars, seriesVars, limiterVars>>
vars == <<capsules, testPending, inflight, h, run, doc, fmtFails, titleLen, idx, parts, currentPart, pc,
          accessToken, rev, ser, call, net, clock, limiters, sends>>

----------------------------------------------------------------------------
(* Bounds of the model *)

MaxCapsules == 2
MaxInflight == 2
MaxOverflow == 1
MaxSummaries == 2
ModelNameLen == 6
MaxParas == 3
TitleLen == 30
MaxDuration == 2
UrlLen == 40
MaxBatches == 2
MaxSends == 3
MaxTicks == 4
MaxEarlyFailures == 2

(* Program constants *)

ReadAttempts == 10
PoolMaxGoroutines == 20
MinHistories == 5
CondensedFallbackLen == 50
maxRetries == 3
UnsubscribeAttempts == 1000
UnsubscribeDelay == 60
PagingThreshold == 61440
StatsHeaderLen == 139
ParagraphTagsLen == 7
H2TagsLen == 9
FooterLen == 40
pageSizeLimit == 61440
safetyBuffer == 2048
retryDelay == 1
pageCreateInterval == 2
SeriesHeaderJsonLen == 112
SeriesLinkJsonLen == 85
ParagraphHtmlLen == 7
HrHtmlLen == 4
HrJsonLen == 13
StatsJsonExtra == 30
FooterJsonExtra == 47
WholeLimit003 == 65536
PartLimit003 == 64512
ParagraphJsonLen == 28
JsonWrapLen == 1
HeaderHtmlLen == 88
HeaderJsonLen == 134
ContHeaderHtmlLen == 98
ContHeaderJsonLen == 178
FooterMoreHtmlLen == 92
FooterMoreJsonLen == 139
FooterEndHtmlLen == 44
FooterEndJsonLen == 91
AutoRecapSendModePublicly == 0
AutoRecapSendModeOnlyPrivateSubscriptions == 1

Chats == {1, 2}
Users == {11, 12}

----------------------------------------------------------------------------
(* Data *)

\* a nil *ent.TelegramChatRecapsOptions
NilOptions == [isNil |-> TRUE, mode |-> 0, rates |-> 0, pin |-> FALSE]

Opt(m, r, p) == [isNil |-> FALSE, mode |-> m, rates |-> r, pin |-> p]

\* values FindOneRecapsOption can hand back
OptionValues ==
    { NilOptions,
      Opt(AutoRecapSendModePublicly, 4, TRUE),
      Opt(AutoRecapSendModeOnlyPrivateSubscriptions, 3, FALSE) }

\* values FindAutoRecapsSubscribers can hand back
SubscriberLists == { <<>>, <<11>>, <<11, 12>> }

\* how many calls of a store read fail before one succeeds
FailuresBeforeSuccess == {0, ReadAttempts - 1, ReadAttempts}

----------------------------------------------------------------------------
(* lo.Attempt(maxN, f): call f until it returns nil, at most maxN times.   *)
(* fails is the number of calls that fail before the first success: the    *)
(* loop leaves at call fails + 1 when that is within maxN, and after maxN  *)
(* calls with the last error otherwise.                                    *)

Attempt(maxN, fails) ==
    IF fails < maxN THEN [calls |-> fails + 1, err |-> FALSE]
    ELSE [calls |-> maxN, err |-> TRUE]

----------------------------------------------------------------------------
(* Strings are sequences of bytes, so that Go's len and s[:n] are Len and  *)
(* SubSeq.                                                                 *)

RECURSIVE Rep(_, _)
Rep(ch, n) == IF n = 0 THEN <<>> ELSE <<ch>> \o Rep(ch, n - 1)

Blank == " "
Newline == "\n"
Ellipsis == <<".", ".", ".">>

\* unicode.IsSpace: the white space of ASCII (the vertical tab written
\* "U+000B"), and, each written as one character, U+0085 and U+00A0, of
\* two bytes in UTF-8, and U+3000 for the white space of three bytes
\* (U+1680, U+2000 to U+200A, U+2028, U+2029, U+202F, U+205F, U+3000)
WideSpaces == {"U+0085", "U+00A0"}

WiderSpace == "U+3000"

IsSpace(ch) ==
    ch \in {Blank, Newline, "\t", "\r", "\f", "U+000B"} \cup WideSpaces \cup {WiderSpace}

\* strings.TrimSpace
RECURSIVE TrimLeft(_)
TrimLeft(s) == IF s # <<>> /\ IsSpace(Head(s)) THEN TrimLeft(Tail(s)) ELSE s

RECURSIVE TrimRight(_)
TrimRight(s) ==
    IF s # <<>> /\ IsSpace(s[Len(s)]) THEN TrimRight(SubSeq(s, 1, Len(s) - 1)) ELSE s

TrimSpace(s) == TrimRight(TrimLeft(s))

\* A text is a sequence of characters of one byte each, but for "A", which
\* stands for a run of LongRunLen letters, for the tags "<b>", "</b>",
\* "<i>" and "</i>", and for the white space of two and of three bytes.
\* "byte" is one byte of a character that was cut.
LongRunLen == pageSizeLimit

TagChars(ch) ==
    IF ch = "<b>" THEN <<"<", "b", ">">>
    ELSE IF ch = "</b>" THEN <<"<", "/", "b", ">">>
    ELSE IF ch = "<i>" THEN <<"<", "i", ">">>
    ELSE IF ch = "</i>" THEN <<"<", "/", "i", ">">>
    ELSE <<ch>>

CharLen(ch) ==
    IF ch = "A" THEN LongRunLen
    ELSE IF ch \in WideSpaces THEN 2
    ELSE IF ch = WiderSpace THEN 3
    ELSE Len(TagChars(ch))

\* len(s)
RECURSIVE ByteLen(_)
ByteLen(s) == IF s = <<>> THEN 0 ELSE CharLen(Head(s)) + ByteLen(Tail(s))

\* s[:n]
RECURSIVE Prefix(_, _)
Prefix(s, n) ==
    IF s = <<>> \/ n = 0 THEN <<>>
    ELSE IF CharLen(Head(s)) <= n
    THEN <<Head(s)>> \o Prefix(Tail(s), n - CharLen(Head(s)))
    ELSE IF Head(s) = "A" THEN Rep("a", n)
    ELSE IF Head(s) \in WideSpaces \cup {WiderSpace} THEN Rep("byte", n)
    ELSE SubSeq(TagChars(Head(s)), 1, n)

\* a summary that is a markdown title, one that opens with "##" and no
\* blank, and one longer than a page
TitleText == <<"#", "#", Blank, "T">>

H2Text == <<"#", "#", "T">>

LongText == <<"A">>

\* a summary of two paragraphs with a paragraph of white space between
\* them, and one with markdown emphasis
BlankLineText == <<"a", Newline, Newline, "\t", "U+00A0", Newline, Newline, "b">>

MarkedText == <<"*", "a", "_">>

\* topic summaries SummarizeChatHistories can hand back
SummaryTexts ==
    { <<>>, <<Blank>>, Rep("a", CondensedFallbackLen),
      Rep("a", CondensedFallbackLen + 1) }

SummaryLists ==
    UNION { [1..n -> SummaryTexts] : n \in 0..MaxSummaries }
      \cup { <<TitleText>>, <<H2Text, TitleText>>, <<BlankLineText, MarkedText>> }

RECURSIVE StripHashes(_)
StripHashes(s) == IF s # <<>> /\ Head(s) = "#" THEN StripHashes(Tail(s)) ELSE s

\* the text is one markdown title line: "#"s, a blank, the title
IsMarkdownTitle(s) ==
    /\ s # <<>> /\ Head(s) = "#"
    /\ StripHashes(s) # <<>> /\ Head(StripHashes(s)) = Blank

\* a title line without its "#"s and blank, between "<b>" and "</b>"
BoldTitle(line) ==
    IF IsMarkdownTitle(line)
    THEN <<"<b>">> \o Tail(StripHashes(line)) \o <<"</b>">>
    ELSE line

\* strings.Index(s, sep) for a separator of characters, from 1; 0 when none
Index(s, sep) ==
    LET at == { i \in 1..(Len(s) - Len(sep) + 1) : SubSeq(s, i, i + Len(sep) - 1) = sep }
    IN  IF at = {} THEN 0 ELSE CHOOSE i \in at : \A j \in at : i <= j

\* tgbot.ReplaceMarkdownTitlesToTelegramBoldElement: every line that is a
\* markdown title is made bold
RECURSIVE ReplaceMarkdownTitlesToTelegramBoldElement(_)
ReplaceMarkdownTitlesToTelegramBoldElement(s) ==
    LET k == Index(s, <<Newline>>)
    IN  IF k = 0 THEN BoldTitle(s)
        ELSE BoldTitle(SubSeq(s, 1, k - 1)) \o <<Newline>>
               \o ReplaceMarkdownTitlesToTelegramBoldElement(SubSeq(s, k + 1, Len(s)))

\* results of GenSarcasticCondensed: an error, or a string
CondenseResults ==
    { [err |-> TRUE,  text |-> <<>>],
      [err |-> FALSE, text |-> <<>>],
      [err |-> FALSE, text |-> <<Blank>>],
      [err |-> FALSE, text |-> <<Blank, "w", "o", "w", Blank>>] }

\* lengths of the history window the store can hand back
HistoryLens == {0, MinHistories, MinHistories + 1}

\* lo.Filter(summarizations, item != "")
RECURSIVE FilterNonEmpty(_)
FilterNonEmpty(ss) ==
    IF ss = <<>> THEN <<>>
    ELSE IF Head(ss) # <<>> THEN <<Head(ss)>> \o FilterNonEmpty(Tail(ss))
    ELSE FilterNonEmpty(Tail(ss))

\* a slip: a window of MinHistories messages passes
NotEnoughHistories_Strict(n) == n < MinHistories

\* the history window is too short to summarize
NotEnoughHistories(n) == n <= MinHistories

\* mAutoRecapRatesPerDayHours, 6 when the rate is not in the map
Hours(rates) ==
    IF rates = 4 THEN 6 ELSE IF rates = 3 THEN 8 ELSE IF rates = 2 THEN 12 ELSE 6

\* the placeholder naming the time window
Placeholder(hours) == <<"window", ToString(hours)>>

\* the fallback of summarize when GenSarcasticCondensed returned an error
FallbackCondensed(b, hours) ==
    IF Len(b) > 0
    THEN IF ByteLen(b[1]) > CondensedFallbackLen
         THEN Prefix(b[1], CondensedFallbackLen) \o Ellipsis
         ELSE b[1]
    ELSE Placeholder(hours)

\* the condensed summary summarize puts in the message of a batch
CondensedSummary(res, b, hours) ==
    IF res.err THEN FallbackCondensed(b, hours) ELSE TrimSpace(res.text)

\* decimal digits of a positive number below 100
Digits(n) == IF n < 10 THEN 1 ELSE 2

\* strings.HasPrefix(p, "##")
HasH2Prefix(p) == Len(p) >= 2 /\ p[1] = "#" /\ p[2] = "#"

\* what a paragraph adds to htmlSummary: "<h2>" title "</h2>" for one that
\* opens with "##", "<p>" p "</p>" otherwise
\* strings.ReplaceAll(s, old, new) for a character old, at one character
\* of s: new is a tag that holds no old
ReplaceAll(ch, old, new) == IF ch = old THEN new ELSE ch

\* the four replacements of a paragraph: every "*" becomes "<b>", so the
\* replacement by "</b>" finds none, and likewise "_" and "<i>"
MarkdownToHtml(p) ==
    [i \in 1..Len(p) |->
       ReplaceAll(ReplaceAll(ReplaceAll(ReplaceAll(p[i], "*", "<b>"), "*", "</b>"),
                             "_", "<i>"), "_", "</i>")]

ParagraphHtml(p) ==
    IF HasH2Prefix(p) THEN H2TagsLen + ByteLen(TrimSpace(SubSeq(p, 3, Len(p))))
    ELSE ParagraphTagsLen + ByteLen(MarkdownToHtml(p))

RECURSIVE SumHtmlOf(_)
SumHtmlOf(ps) == IF ps = <<>> THEN 0 ELSE ParagraphHtml(Head(ps)) + SumHtmlOf(Tail(ps))

\* rawSummary: strings.Join(b, "\n\n")
RECURSIVE RawSummary(_)
RawSummary(b) ==
    IF b = <<>> THEN <<>>
    ELSE IF Len(b) = 1 THEN b[1]
    ELSE b[1] \o <<Newline, Newline>> \o RawSummary(Tail(b))

\* strings.Split(s, "\n\n")
RECURSIVE SplitBlankLines(_)
SplitBlankLines(s) ==
    LET k == Index(s, <<Newline, Newline>>)
    IN  IF k = 0 THEN <<s>>
        ELSE <<SubSeq(s, 1, k - 1)>> \o SplitBlankLines(SubSeq(s, k + 2, Len(s)))

RECURSIVE NotBlank(_)
NotBlank(ps) ==
    IF ps = <<>> THEN <<>>
    ELSE IF TrimSpace(Head(ps)) # <<>> THEN <<Head(ps)>> \o NotBlank(Tail(ps))
    ELSE NotBlank(Tail(ps))

\* the paragraphs summarize writes into the page: the pieces of rawSummary
\* between blank lines that are not blank
Paragraphs(b) == NotBlank(SplitBlankLines(RawSummary(b)))

\* len(htmlSummary): the statistics header, "<p>" p "</p>" per paragraph,
\* and the footer naming the model
HtmlSummaryLen(b, hours) ==
    StatsHeaderLen + Digits(hours)
      + SumHtmlOf(Paragraphs(b))
      + FooterLen + ModelNameLen

\* summarize publishes the batch as a page series
NeedsSeries(htmlLen) == htmlLen > PagingThreshold

\* a slip: only the first attempt decides the result
CreatePage_FirstAttemptOnly(tokenOk, outcomes) ==
    IF ~tokenOk THEN [err |-> TRUE, remote |-> 0]
    ELSE [err |-> ~outcomes[1],
          remote |-> Cardinality({ i \in 1..maxRetries : outcomes[i] })]

\* Service.CreatePage: maxRetries remote attempts are started, none is
\* skipped after a success; the call fails when no attempt succeeded or the
\* access token is not configured
CreatePage(tokenOk, outcomes) ==
    IF ~tokenOk THEN [err |-> TRUE, remote |-> 0]
    ELSE LET ok == { i \in 1..maxRetries : outcomes[i] }
         IN  [err |-> ok = {}, remote |-> Cardinality(ok)]

----------------------------------------------------------------------------
(* sendChatHistoriesRecapTimeCapsuleHandler.  The handler has no lock: the  *)
(* digger calls it for a capsule it dug out, the start-up test goroutine   *)
(* calls it once without a capsule, and the two invocations may overlap.   *)
(* h[i] is the frame of the invocation made by invoker i; it keeps its     *)
(* final value after the return.                                           *)

Total(f) == f[1] + f[2]

Invokers == {"digger", "test"}

IdleFrame ==
    [ pc |-> "idle", chat |-> 0, consumed |-> 0,
      enCalls |-> 0, optCalls |-> 0, subCalls |-> 0,
      enErr |-> FALSE, optErr |-> FALSE, subErr |-> FALSE,
      enabled |-> FALSE, options |-> NilOptions, subscribers |-> <<>>,
      schedCalls |-> 0, dispatched |-> FALSE ]

NoInvocation == [i \in Invokers |-> IdleFrame]

\* the digger's loop is between two calls of the handler
DiggerIdle == h["digger"].pc \in {"idle", "returned"}

\* the digger digs out a capsule of chat c and calls the handler
Fire(c) ==
    /\ DiggerIdle
    /\ capsules[c] > 0
    /\ capsules' = [capsules EXCEPT ![c] = @ - 1]
    /\ h' = [h EXCEPT !["digger"] =
                [IdleFrame EXCEPT !.pc = "enabled", !.chat = c, !.consumed = 1]]
    /\ UNCHANGED <<testPending, inflight, run>>
    /\ UNCHANGED telegraphVars

\* NewAutoRecapService: the test goroutine calls the handler
TestFire ==
    /\ testPending # 0
    /\ testPending' = 0
    /\ h' = [h EXCEPT !["test"] =
                [IdleFrame EXCEPT !.pc = "enabled", !.chat = testPending]]
    /\ UNCHANGED <<capsules, inflight, run>>
    /\ UNCHANGED telegraphVars

\* a callback of the settings menu (toggle on, rate selected) queues a
\* capsule for chat c; the counter is capped at MaxCapsules
CallbackQueue(c) ==
    /\ \E qOk \in BOOLEAN :
         /\ capsules[c] + (IF qOk THEN 1 ELSE 0) <= MaxCapsules
         /\ capsules' = [capsules EXCEPT ![c] = @ + (IF qOk THEN 1 ELSE 0)]
    /\ UNCHANGED <<testPending, inflight, h, run>>
    /\ UNCHANGED telegraphVars

\* lo.Attempt(10, HasChatHistoriesRecapEnabledForGroups)
ReadEnabled(i, fails, vals) ==
    /\ h[i].pc = "enabled"
    /\ \E f \in fails, v \in vals :
         LET r == Attempt(ReadAttempts, f)
         IN  h' = [h EXCEPT ![i] =
                     [@ EXCEPT !.pc = "options", !.enCalls = r.calls, !.enErr = r.err,
                               !.enabled = IF r.err THEN FALSE ELSE v]]
    /\ UNCHANGED <<capsules, testPending, inflight, run>>
    /\ UNCHANGED telegraphVars

\* lo.Attempt(10, FindOneRecapsOption)
ReadOptions(i, fails, vals) ==
    /\ h[i].pc = "options"
    /\ \E f \in fails, v \in vals :
         LET r == Attempt(ReadAttempts, f)
         IN  h' = [h EXCEPT ![i] =
                     [@ EXCEPT !.pc = "subscribers", !.optCalls = r.calls,
                               !.optErr = r.err,
                               !.options = IF r.err THEN NilOptions ELSE v]]
    /\ UNCHANGED <<capsules, testPending, inflight, run>>
    /\ UNCHANGED telegraphVars

\* lo.Attempt(10, FindAutoRecapsSubscribers)
ReadSubscribers(i, fails, vals) ==
    /\ h[i].pc = "subscribers"
    /\ \E f \in fails, v \in vals :
         LET r == Attempt(ReadAttempts, f)
         IN  h' = [h EXCEPT ![i] =
                     [@ EXCEPT !.pc = "errors", !.subCalls = r.calls, !.subErr = r.err,
                               !.subscribers = IF r.err THEN <<>> ELSE v]]
    /\ UNCHANGED <<capsules, testPending, inflight, run>>
    /\ UNCHANGED telegraphVars

\* the errors collected by may.Invoke
Errs(f) == (IF f.enErr THEN 1 ELSE 0) + (IF f.optErr THEN 1 ELSE 0)
             + (IF f.subErr THEN 1 ELSE 0)

\* may.HandleErrors runs its callback, which requeues
HandleErrorsRequeues(f) == Errs(f) > 0

\* the handler returns at "if !enabled"
ReturnsDisabled(f) == ~f.enabled

\* a slip: the private-only skip is left out
SkipsPrivateOnly_Never(f) == FALSE

\* the private-only skip after the requeue
SkipsPrivateOnly(f) ==
    /\ ~f.options.isNil
    /\ f.options.mode = AutoRecapSendModeOnlyPrivateSubscriptions
    /\ Len(f.subscribers) = 0

\* QueueOneSendChatHistoriesRecapTaskForChatID: a call that succeeds buries
\* one capsule for the chat
Buried(c, qOk) == [capsules EXCEPT ![c] = @ + (IF qOk THEN 1 ELSE 0)]

\* may.HandleErrors and the enabled check; the capsule counter is capped at
\* MaxCapsules
HandleErrors(i) ==
    /\ h[i].pc = "errors"
    /\ \E qOk \in BOOLEAN :
         IF HandleErrorsRequeues(h[i])
         THEN /\ capsules[h[i].chat] + (IF qOk THEN 1 ELSE 0) <= MaxCapsules
              /\ capsules' = Buried(h[i].chat, qOk)
              /\ h' = [h EXCEPT ![i] =
                         [@ EXCEPT !.schedCalls = @ + 1,
                                   !.pc = IF ReturnsDisabled(h[i]) THEN "returned"
                                          ELSE "requeue"]]
         ELSE /\ qOk
              /\ capsules' = capsules
              /\ h' = [h EXCEPT ![i] =
                         [@ EXCEPT !.pc = IF ReturnsDisabled(h[i]) THEN "returned"
                                          ELSE "requeue"]]
    /\ UNCHANGED <<testPending, inflight, run>>
    /\ UNCHANGED telegraphVars

\* "always requeue", the private-only skip, and pool.Go(summarize) on the
\* pool made for this invocation, which never makes the handler wait.  The
\* counters of capsules and of runs in flight are capped at MaxCapsules and
\* at cap.
RequeueAndDispatch(i, cap) ==
    /\ h[i].pc = "requeue"
    /\ \E qOk \in BOOLEAN :
         /\ capsules[h[i].chat] + (IF qOk THEN 1 ELSE 0) <= MaxCapsules
         /\ capsules' = Buried(h[i].chat, qOk)
    /\ IF SkipsPrivateOnly(h[i])
       THEN /\ h' = [h EXCEPT ![i] = [@ EXCEPT !.schedCalls = @ + 1, !.pc = "returned"]]
            /\ inflight' = inflight
       ELSE /\ Total(inflight) < cap
            /\ h' = [h EXCEPT ![i] = [@ EXCEPT !.schedCalls = @ + 1, !.pc = "returned",
                                               !.dispatched = TRUE]]
            /\ inflight' = [inflight EXCEPT ![h[i].chat] = @ + 1]
    /\ UNCHANGED <<testPending, run>>
    /\ UNCHANGED telegraphVars

\* the goroutine of a dispatched summarize run returns
RunReturn(c) ==
    /\ inflight[c] > 0
    /\ inflight' = [inflight EXCEPT ![c] = @ - 1]
    /\ UNCHANGED <<capsules, testPending, h, run>>
    /\ UNCHANGED telegraphVars

----------------------------------------------------------------------------
(* AutoRecapService.summarize, one action per step of the run.  Each step  *)
(* draws the answer of the external call it makes.                         *)

NoRun == [pc |-> "none"]

\* a message the bot sent: the batch it belongs to and the chat it went to
Msg(b, to) == <<b, to>>

\* the zero value of sentMsg after a Send that failed
NoMsg == <<0, 0>>

\* the message pinned by an earlier run of the chat
OldMsg(c) == <<0, c>>

PinnedRecord(chat, msg) == [chat |-> chat, msg |-> msg]

\* the delivery records marked pinned that the store holds when the first
\* batch of a run is delivered: none, or the one of an earlier run
PriorPinned(c, earlier) == IF earlier THEN <<PinnedRecord(c, OldMsg(c))>> ELSE <<>>

\* no page: the URL of a publication that failed
NoURL == 0 - 1

\* nothing handled yet
NoStep ==
    [ b |-> 0, to |-> 0, private |-> FALSE, faults |-> {}, took |-> FALSE,
      sent |-> FALSE, suffix |-> <<0, 0>>, pinStep |-> FALSE, lookup |-> "none",
      last |-> PinnedRecord(0, NoMsg),
      unpinCalled |-> FALSE, updateCalled |-> FALSE, pinCalled |-> FALSE,
      pinned |-> FALSE, records |-> 0, recordPinned |-> FALSE, over |-> FALSE ]

NewRun(c, options, subscribers) ==
    [ pc |-> "start", chat |-> c, options |-> options, subscribers |-> subscribers,
      batches |-> <<>>, bi |-> 1, published |-> {}, handled |-> 0,
      noticeSends |-> 0,
      pinnedRecs |-> <<>>, step |-> NoStep,
      outcome |-> "running", nHist |-> -1, summarizerCalls |-> 0,
      summaries |-> <<>>, targets |-> <<>>, subIdx |-> 1, memberResults |-> <<>>,
      unsubCalls |-> 0, removals |-> <<>>, notices |-> <<>>,
      condenseCalls |-> 0, condenseErr |-> FALSE, condenseText |-> <<>>,
      condensed |-> <<>>, publishCalls |-> 0, url |-> NoURL, editCalls |-> 0,
      attempt |-> 0, unsubFails |-> 0,
      tgtIdx |-> 1, takes |-> 0, sendAttempts |-> <<>>, recaps |-> <<>> ]

Done(r, why) == [r EXCEPT !.pc = "done", !.outcome = why]

\* results of GetChatMember: an error, or a member status
MemberResults == {"err", "member", "left"}

\* a slip: a subscriber who left the chat stays a target
AllowedStatuses_WithLeft == {"administrator", "creator", "member", "restricted", "left"}

AllowedStatuses == {"administrator", "creator", "member", "restricted"}

\* lo.AttemptWithDelay(1000, time.Minute, UnsubscribeToAutoRecaps) for
\* subscriber u: the calls made, the seconds slept between them, whether
\* the subscriber left the store, and the removal notices sent to u after it
Removal(u, a) ==
    [ user |-> u, calls |-> a.calls, wait |-> (a.calls - 1) * UnsubscribeDelay,
      removed |-> IF a.err THEN 0 ELSE 1, noticeSends |-> 0 ]

GroupTarget(c) == [id |-> c, private |-> FALSE]
PrivateTarget(u) == [id |-> u, private |-> TRUE]

\* the group chat is a target
GroupIsTarget(options) ==
    options.isNil \/ options.mode = AutoRecapSendModePublicly

\* the pool's goroutine calls summarize with the arguments of the dispatch
RunBegin ==
    /\ run.pc = "none"
    /\ \E i \in Invokers :
         /\ h[i].pc = "returned"
         /\ h[i].dispatched
         /\ run' = NewRun(h[i].chat, h[i].options, h[i].subscribers)
    /\ UNCHANGED <<capsules, testPending, inflight, h>>
    /\ UNCHANGED telegraphVars

\* the first use of options, and GetChat
RunStart ==
    /\ run.pc = "start"
    /\ IF run.options.isNil
       THEN run' = Done(run, "panic")
       ELSE \E err \in BOOLEAN :
              run' = IF err THEN Done(run, "getchat_failed")
                     ELSE [run EXCEPT !.pc = "histories"]
    /\ UNCHANGED <<capsules, testPending, inflight, h>>
    /\ UNCHANGED telegraphVars

\* findChatHistories and the check of the window length
RunFindHistories ==
    /\ run.pc = "histories"
    /\ \E err \in BOOLEAN, n \in HistoryLens :
         run' = IF err THEN Done(run, "histories_failed")
                ELSE IF NotEnoughHistories(n)
                     THEN Done([run EXCEPT !.nHist = n], "not_enough")
                     ELSE [run EXCEPT !.nHist = n, !.pc = "summarize"]
    /\ UNCHANGED <<capsules, testPending, inflight, h>>
    /\ UNCHANGED telegraphVars

\* SummarizeChatHistories
RunSummarize(lists) ==
    /\ run.pc = "summarize"
    /\ \E err \in BOOLEAN, ss \in lists :
         LET r == [run EXCEPT !.summarizerCalls = @ + 1]
         IN  run' = IF err THEN Done(r, "summarize_failed")
                    ELSE [r EXCEPT !.summaries = ss, !.pc = "keyboard"]
    /\ UNCHANGED <<capsules, testPending, inflight, h>>
    /\ UNCHANGED telegraphVars

\* the reaction counts and the vote keyboard
RunVoteKeyboard ==
    /\ run.pc = "keyboard"
    /\ \E ok \in BOOLEAN :
         run' = IF ok THEN [run EXCEPT !.pc = "filter"]
                ELSE Done(run, "keyboard_failed")
    /\ UNCHANGED <<capsules, testPending, inflight, h>>
    /\ UNCHANGED telegraphVars

\* the platform's limit on the length of one message
MessageLimit == 4096

RECURSIVE TotalLen(_)
TotalLen(ss) == IF ss = <<>> THEN 0 ELSE ByteLen(Head(ss)) + TotalLen(Tail(ss))

\* summaries that fit one message together: one group
OneMessageGroup(ss) == <<ss>>

\* tgbot.SplitMessagesAgainstLengthLimitIntoMessageGroups, for at most two
\* summaries: one group when they fit one message together, and a group for
\* each otherwise
MessageGroups(ss) ==
    IF TotalLen(ss) <= MessageLimit THEN OneMessageGroup(ss)
    ELSE [i \in 1..Len(ss) |-> <<ss[i]>>]

\* the filter of the summaries, the titles made bold, the batches, and the
\* group target
RunFilter ==
    /\ run.pc = "filter"
    /\ \E nonEmpty \in {FilterNonEmpty(run.summaries)} :
       \E kept \in {[i \in 1..Len(nonEmpty) |->
                       ReplaceMarkdownTitlesToTelegramBoldElement(nonEmpty[i])]} :
       \E groups \in {MessageGroups(kept)} :
         run' = IF Len(kept) = 0
                THEN Done([run EXCEPT !.summaries = kept], "empty")
                ELSE [run EXCEPT
                        !.summaries = kept,
                        !.batches = groups,
                        !.targets = IF GroupIsTarget(run.options)
                                    THEN <<GroupTarget(run.chat)>> ELSE <<>>,
                        !.pc = IF Len(run.subscribers) = 0 THEN "batch" ELSE "members"]
    /\ UNCHANGED <<capsules, testPending, inflight, h>>
    /\ UNCHANGED telegraphVars

\* a slip: a failed membership query is not told from a status
MemberQueryFailed_Never(res) == FALSE

\* GetChatMember returned an error: the subscriber is passed over
MemberQueryFailed(res) == res = "err"

\* the loop over the subscribers goes to its next turn
NextSubscriber(r) ==
    [r EXCEPT !.subIdx = @ + 1,
              !.pc = IF r.subIdx = Len(r.subscribers) THEN "batch" ELSE "members"]

\* how many calls of UnsubscribeToAutoRecaps fail before one succeeds
UnsubscribeFailures ==
    (0..MaxEarlyFailures) \cup {UnsubscribeAttempts - 1, UnsubscribeAttempts}

\* one turn of the loop over the subscribers: GetChatMember and the test of
\* the status.  For a subscriber to unsubscribe, failures is drawn from the
\* numbers of calls the store lets fail before one succeeds.
RunMember(failures) ==
    /\ run.pc = "members"
    /\ LET u == run.subscribers[run.subIdx]
       IN  \E res \in MemberResults :
             LET r == [run EXCEPT !.memberResults = Append(@, res)]
             IN  IF MemberQueryFailed(res) THEN run' = NextSubscriber(r)
                 ELSE IF res \in AllowedStatuses
                 THEN run' = NextSubscriber([r EXCEPT !.targets = Append(@, PrivateTarget(u))])
                 ELSE \E fails \in failures :
                        run' = [r EXCEPT !.pc = "unsubscribe", !.attempt = 0,
                                         !.unsubFails = fails]
    /\ UNCHANGED <<capsules, testPending, inflight, h>>
    /\ UNCHANGED telegraphVars

\* lo.AttemptWithDelay(1000, time.Minute, ..): one call of
\* UnsubscribeToAutoRecaps, and the sleep of a minute when it failed and
\* calls are left
RunUnsubscribe ==
    /\ run.pc = "unsubscribe"
    /\ LET u == run.subscribers[run.subIdx]
           n == run.attempt + 1
           ok == n > run.unsubFails
       IN  run' = IF ok \/ n = UnsubscribeAttempts
                  THEN [run EXCEPT
                          !.pc = "notice", !.attempt = 0, !.unsubFails = 0,
                          !.unsubCalls = @ + 1,
                          !.removals = Append(@, Removal(u, [calls |-> n, err |-> ~ok]))]
                  ELSE [run EXCEPT !.attempt = n, !.unsubCalls = @ + 1]
    /\ UNCHANGED <<capsules, testPending, inflight, h>>
    /\ UNCHANGED telegraphVars

\* the notice of the removal, sent whatever the unsubscribe returned
RunNotice ==
    /\ run.pc = "notice"
    /\ LET u == run.subscribers[run.subIdx]
       IN  \E noticeOk \in BOOLEAN :
             run' = NextSubscriber(
                      [run EXCEPT
                         !.noticeSends = @ + 1,
                         !.removals[Len(run.removals)].noticeSends = @ + 1,
                         !.notices = IF noticeOk THEN Append(@, u) ELSE @])
    /\ UNCHANGED <<capsules, testPending, inflight, h>>
    /\ UNCHANGED telegraphVars

\* a slip: the loop over the batches does not come to its end
NextBatch_Hangs(r) == [r EXCEPT !.pc = "wait"]

\* the batch after the current one, or the end of the run
NextBatch(r) ==
    IF r.bi < Len(r.batches)
    THEN [r EXCEPT !.pc = "batch", !.bi = @ + 1, !.tgtIdx = 1]
    ELSE Done(r, "completed")

\* a slip: the batch is sent although its page was not created
SkipsBatch_Never(page) == FALSE

\* "if err != nil { ...; continue }" after CreatePage
SkipsBatch(page) == page.err

\* the suffix of the message of batch k of n: (k/n) when there are several
Suffix(k, n) == IF n > 1 THEN <<k, n>> ELSE <<0, 0>>

\* i == 0 && options.PinAutoRecapMessage
PinPath(r, t) == r.bi = 1 /\ r.options.pin

\* the calls of a private message and of every message that may fail
SendFaults == {"keyboard", "send"}

\* and those of the store and of the pin step
AllFaults == SendFaults \cup {"save", "lookup", "unpin", "update", "pin"}

\* whether a call returns an error, for a call of name among the calls
\* that may fail
MayFail(name, faults) == IF name \in faults THEN BOOLEAN ELSE {FALSE}

\* what FindLastTelegramPinnedMessage hands back when it has no record to
\* return: a nil record, on which the next statement panics, or an empty one
MissingRecords == {"nil", "empty"}

\* the newest record marked pinned of the chat
RECURSIVE LastPinned(_, _)
LastPinned(recs, c) ==
    IF recs = <<>> THEN PinnedRecord(0, NoMsg)
    ELSE IF recs[Len(recs)].chat = c THEN recs[Len(recs)]
    ELSE LastPinned(SubSeq(recs, 1, Len(recs) - 1), c)

\* a slip: the record of the message pinned before stays marked
Unmark_Keeps(recs, rec) == recs

\* UpdatePinnedMessage(chat, msg, false)
Unmark(recs, rec) == SelectSeq(recs, LAMBDA x : x # rec)

\* the target of the current turn of the loop over the targets
Target(r) == r.targets[r.tgtIdx]

\* sentMsg of the current turn: the zero value after a Send that failed
SentMsg(r) == IF r.step.sent THEN Msg(r.step.b, r.step.to) ELSE NoMsg

\* the turn is over (a continue, or the end of the body): the next target,
\* the next batch, or the end of the run
EndTurn(r) ==
    LET e == [r EXCEPT !.handled = @ + 1, !.step.over = TRUE]
    IN  IF r.tgtIdx < Len(r.targets)
        THEN [e EXCEPT !.tgtIdx = @ + 1, !.pc = "send"]
        ELSE NextBatch(e)

\* the head of one turn of the loop over the targets: limiter.Take()
RunTake ==
    /\ run.pc = "send"
    /\ LET t == Target(run)
       IN  run' = [run EXCEPT
                     !.takes = @ + 1,
                     !.step = [NoStep EXCEPT !.b = run.bi, !.to = t.id,
                                             !.private = t.private, !.took = TRUE],
                     !.pc = IF t.private THEN "privatekeyboard" ELSE "sendmsg"]
    /\ UNCHANGED <<capsules, testPending, inflight, h>>
    /\ UNCHANGED telegraphVars

\* NewVoteRecapWithUnsubscribeInlineKeyboardMarkup for a private message:
\* an error ends the turn
RunKeyboard(faults) ==
    /\ run.pc = "privatekeyboard"
    /\ \E err \in MayFail("keyboard", faults) :
         run' = IF err THEN EndTurn([run EXCEPT !.step.faults = @ \cup {"keyboard"}])
                ELSE [run EXCEPT !.pc = "sendmsg"]
    /\ UNCHANGED <<capsules, testPending, inflight, h>>
    /\ UNCHANGED telegraphVars

\* botService.Send: its error is logged, and the turn goes on to the
\* record of the message, with or without the pin step
RunSendMessage(faults) ==
    /\ run.pc = "sendmsg"
    /\ LET t == Target(run)
           suffix == Suffix(run.bi, Len(run.batches))
       IN  \E err \in MayFail("send", faults) :
             run' = [run EXCEPT
                       !.sendAttempts = Append(@, [b |-> run.bi, to |-> t.id]),
                       !.recaps = IF err THEN @
                                  ELSE Append(@, [b |-> run.bi, to |-> t.id,
                                                  url |-> run.url,
                                                  condensed |-> run.condensed,
                                                  suffix |-> suffix]),
                       !.step.sent = ~err,
                       !.step.suffix = suffix,
                       !.step.faults = IF err THEN @ \cup {"send"} ELSE @,
                       !.pc = IF PinPath(run, t) THEN "lookup" ELSE "save"]
    /\ UNCHANGED <<capsules, testPending, inflight, h>>
    /\ UNCHANGED telegraphVars

\* SaveOneTelegramSentMessage(&sentMsg, false) and the continue
RunSave(faults) ==
    /\ run.pc = "save"
    /\ \E err \in MayFail("save", faults) :
         run' = EndTurn([run EXCEPT
                           !.step.records = IF err THEN 0 ELSE 1,
                           !.step.faults = IF err THEN @ \cup {"save"} ELSE @])
    /\ UNCHANGED <<capsules, testPending, inflight, h>>
    /\ UNCHANGED telegraphVars

\* FindLastTelegramPinnedMessage: its error is logged; the statement after
\* it reads lastPinnedMessage.MessageID and panics on a nil record
RunLookup(faults) ==
    /\ run.pc = "lookup"
    /\ \E err \in MayFail("lookup", faults), missing \in MissingRecords :
         LET found == ~err /\ LastPinned(run.pinnedRecs, run.chat).chat = run.chat
             looked == [run EXCEPT
                          !.step.pinStep = TRUE,
                          !.step.lookup = IF found THEN "found"
                                          ELSE IF err THEN "failed" ELSE "missing",
                          !.step.last = IF found THEN LastPinned(run.pinnedRecs, run.chat)
                                        ELSE PinnedRecord(0, NoMsg),
                          !.step.faults = IF err THEN @ \cup {"lookup"} ELSE @]
         IN  run' = IF ~found /\ missing = "nil" THEN Done(looked, "panic")
                    ELSE [looked EXCEPT !.pc = "unpin"]
    /\ UNCHANGED <<capsules, testPending, inflight, h>>
    /\ UNCHANGED telegraphVars

\* may.Invoke(UnpinChatMessage(chatID, lastPinnedMessage.MessageID))
RunUnpin(faults) ==
    /\ run.pc = "unpin"
    /\ \E err \in MayFail("unpin", faults) :
         run' = [run EXCEPT
                   !.step.unpinCalled = TRUE,
                   !.step.faults = IF err THEN @ \cup {"unpin"} ELSE @,
                   !.pc = "update"]
    /\ UNCHANGED <<capsules, testPending, inflight, h>>
    /\ UNCHANGED telegraphVars

\* may.Invoke(UpdatePinnedMessage(lastPinnedMessage.ChatID,
\* lastPinnedMessage.MessageID, false))
RunUpdate(faults) ==
    /\ run.pc = "update"
    /\ \E err \in MayFail("update", faults) :
         run' = [run EXCEPT
                   !.pinnedRecs = IF err THEN @ ELSE Unmark(@, run.step.last),
                   !.step.updateCalled = TRUE,
                   !.step.faults = IF err THEN @ \cup {"update"} ELSE @,
                   !.pc = "pin"]
    /\ UNCHANGED <<capsules, testPending, inflight, h>>
    /\ UNCHANGED telegraphVars

\* may.Invoke(PinChatMessage(chatID, sentMsg.MessageID)): the message is
\* pinned when it is a message of the group chat
RunPin(faults) ==
    /\ run.pc = "pin"
    /\ \E err \in MayFail("pin", faults) :
         run' = [run EXCEPT
                   !.step.pinCalled = TRUE,
                   !.step.pinned = run.step.sent /\ ~run.step.private /\ ~err,
                   !.step.faults = IF err THEN @ \cup {"pin"} ELSE @,
                   !.pc = "savepinned"]
    /\ UNCHANGED <<capsules, testPending, inflight, h>>
    /\ UNCHANGED telegraphVars

\* may.Invoke(SaveOneTelegramSentMessage(&sentMsg, true)), the end of the
\* body of the loop
RunSavePinned(faults) ==
    /\ run.pc = "savepinned"
    /\ LET msg == SentMsg(run)
       IN  \E err \in MayFail("save", faults) :
             run' = EndTurn([run EXCEPT
                               !.pinnedRecs = IF err THEN @
                                              ELSE Append(@, PinnedRecord(msg[2], msg)),
                               !.step.records = IF err THEN 0 ELSE 1,
                               !.step.recordPinned = ~err,
                               !.step.faults = IF err THEN @ \cup {"save"} ELSE @])
    /\ UNCHANGED <<capsules, testPending, inflight, h>>
    /\ UNCHANGED telegraphVars

\* the goroutine of the run followed returns
RunExit ==
    /\ run.pc = "done"
    /\ inflight[run.chat] > 0
    /\ inflight' = [inflight EXCEPT ![run.chat] = @ - 1]
    /\ run' = [run EXCEPT !.pc = "returned"]
    /\ UNCHANGED <<capsules, testPending, h>>
    /\ UNCHANGED telegraphVars

\* the remote requests are measured in seconds; a gap is counted up to
\* one second past pageCreateInterval
SinceCap == pageCreateInterval + 1

SerOff ==
    [ pc |-> "off", i |-> 0, urls |-> <<>>, pageTitles |-> <<>>,
      createErrors |-> 0, editErrors |-> 0, edited |-> <<>>,
      series |-> FALSE, err |-> FALSE, telegraphURL |-> 0 - 1 ]

NoCall ==
    [ pc |-> "idle", op |-> "none", part |-> 0, k |-> 0, t |-> 0,
      oks |-> [j \in 1..maxRetries |-> FALSE],
      fin |-> [j \in 1..maxRetries |-> 0],
      err |-> FALSE, url |-> 0 ]

NetIdle == [ since |-> SinceCap, gap |-> SinceCap, sent |-> 0 ]

\* ratelimit.New(5): Takes per second of one limiter
TakesPerSecond == 5

\* the slack ratelimit.New gives a limiter made without options
DefaultSlack == 10

\* no limiter yet: summarize makes one when it has the summaries
NoLimiter == [on |-> FALSE, last |-> 0 - 1, sleepFor |-> 0, todo |-> 0, taken |-> FALSE]

LimiterIdle ==
    /\ clock = 0
    /\ limiters = [c \in Chats |-> NoLimiter]
    /\ sends = <<>>

\* no publication going on
SeriesIdle ==
    /\ rev = "part_002"
    /\ ser = SerOff
    /\ call = NoCall
    /\ net = NetIdle

NoPart == [hdr |-> "none", no |-> 0, paras |-> <<>>, ftr |-> "none"]

SplitIdle ==
    /\ doc = <<>>
    /\ fmtFails = FALSE
    /\ titleLen = 0
    /\ idx = 0
    /\ parts = <<>>
    /\ currentPart = NoPart
    /\ pc = "off"

----------------------------------------------------------------------------
(* Service.SplitContentIntoParts.  A document is a sequence of "<p>"       *)
(* paragraphs given by the byte lengths of their texts; strings.Split on   *)
(* "</p>" yields one piece per paragraph and a last, empty piece.  A part  *)
(* is its header, the paragraphs it holds (indexes into the document) and  *)
(* its footer.  The serialized size is that of json.Marshal of the nodes   *)
(* of telegraph.ContentFormat: the array brackets, and per node its        *)
(* object and a separator.                                                 *)

\* the longest single paragraph whose document passes the size check
FitLen == pageSizeLimit - safetyBuffer - JsonWrapLen - ParagraphJsonLen - 1

\* two such paragraphs share the first part with its header
HalfLen ==
    ((pageSizeLimit - safetyBuffer - JsonWrapLen - HeaderJsonLen) \div 2)
      - ParagraphJsonLen - 1

\* a paragraph whose text alone is as large as a whole page may be
OverLen == pageSizeLimit

ParagraphLens == {1000, HalfLen, FitLen, FitLen + 1, OverLen}

Docs == UNION { [1..n -> ParagraphLens] : n \in 1..MaxParas }

Part(hdr, no, paras, ftr) == [hdr |-> hdr, no |-> no, paras |-> paras, ftr |-> ftr]

\* the input returned as it is
WholeDoc(d) == Part("none", 0, [i \in 1..Len(d) |-> i], "none")

\* headerHTML
FirstHeader == Part("first", 0, <<>>, "none")

\* a slip: the paragraph that did not fit is left out of the new part
ContHeader_DropsParagraph(no, para) == Part("cont", no, <<>>, "none")

\* fmt.Sprintf("<p><strong>%s（續 %d）</strong></p>", title, len(parts)+1) and the note
ContHeader(no, para) == Part("cont", no, para, "none")

HdrHtml(pt, tl) ==
    IF pt.hdr = "first" THEN HeaderHtmlLen
    ELSE IF pt.hdr = "cont" THEN ContHeaderHtmlLen + tl + Digits(pt.no)
    ELSE 0

HdrJson(pt, tl) ==
    IF pt.hdr = "first" THEN HeaderJsonLen
    ELSE IF pt.hdr = "cont" THEN ContHeaderJsonLen + tl + Digits(pt.no)
    ELSE 0

FtrHtml(pt) ==
    IF pt.ftr = "more" THEN FooterMoreHtmlLen
    ELSE IF pt.ftr = "end" THEN FooterEndHtmlLen
    ELSE 0

FtrJson(pt) ==
    IF pt.ftr = "more" THEN FooterMoreJsonLen
    ELSE IF pt.ftr = "end" THEN FooterEndJsonLen
    ELSE 0

\* Besides "<p>" paragraphs a document made by summarize holds the line of
\* the statistics, "<p><small>..</small></p><hr>" for a window of one or
\* two digits of hours, and the footer "<hr><p><em>..</em></p>" naming the
\* model.  They are written as the negative numbers -1, -2 and -3.
StatsPiece(hours) == 0 - Digits(hours)

FooterPiece == 0 - 3

IsStats(x) == x = 0 - 1 \/ x = 0 - 2

\* A heading "<h2>..</h2>" has no "</p>": it stays in the piece of the
\* paragraph after it, and is counted with the text of that paragraph.
\* After the last paragraph it stays in the piece of the footer, written
\* FooterPiece - n for a heading of n bytes.
IsFooter(x) == x <= FooterPiece

Heading(x) == FooterPiece - x

\* strings.Split cuts after "</p>": the "<hr>" that ends the line of the
\* statistics opens the piece after it
HrBefore(d, i) == i > 1 /\ IsStats(d[i - 1])

\* len(p) of piece i with its "</p>"
PieceHtml(d, i) ==
    IF IsStats(d[i]) THEN StatsHeaderLen - HrHtmlLen + (0 - d[i])
    ELSE (IF HrBefore(d, i) THEN HrHtmlLen ELSE 0)
           + (IF IsFooter(d[i]) THEN Heading(d[i]) + FooterLen + ModelNameLen
              ELSE d[i] + ParagraphHtmlLen)

\* the serialized nodes of piece i, each with its separator
PieceJson(d, i) ==
    IF IsStats(d[i]) THEN StatsHeaderLen - HrHtmlLen + (0 - d[i]) + StatsJsonExtra
    ELSE (IF HrBefore(d, i) THEN HrJsonLen ELSE 0)
           + (IF IsFooter(d[i])
              THEN Heading(d[i]) + FooterLen + ModelNameLen + FooterJsonExtra
              ELSE d[i] + ParagraphJsonLen)

RECURSIVE SumHtml(_, _)
SumHtml(d, paras) ==
    IF paras = <<>> THEN 0 ELSE PieceHtml(d, Head(paras)) + SumHtml(d, Tail(paras))

RECURSIVE SumJson(_, _)
SumJson(d, paras) ==
    IF paras = <<>> THEN 0 ELSE PieceJson(d, Head(paras)) + SumJson(d, Tail(paras))

\* len(html) of a part
HtmlLen(d, pt, tl) == HdrHtml(pt, tl) + SumHtml(d, pt.paras) + FtrHtml(pt)

\* len(jsonBytes) of a part: json.Marshal(telegraph.ContentFormat(html))
JsonLen(d, pt, tl) ==
    JsonWrapLen + HdrJson(pt, tl) + SumJson(d, pt.paras) + FtrJson(pt)

\* a slip: the safety buffer is counted against the limit twice
Fits_DoubleBuffer(d, pt, tl, ff) ==
    IF ff THEN HtmlLen(d, pt, tl) < pageSizeLimit - 2 * safetyBuffer
    ELSE JsonLen(d, pt, tl) + 2 * safetyBuffer < pageSizeLimit

\* the size check: on the serialized size, or on the raw length when the
\* content cannot be formatted
Fits(d, pt, tl, ff) ==
    IF ff THEN HtmlLen(d, pt, tl) < pageSizeLimit - safetyBuffer
    ELSE JsonLen(d, pt, tl) + safetyBuffer < pageSizeLimit

\* the older revision checks raw lengths: len(html) < 64*1024 for the whole
\* document, len(currentPart)+len(p) < 63*1024 for a part
WholeFits(r, d, tl, ff) ==
    IF r = "part_003" THEN HtmlLen(d, WholeDoc(d), tl) < WholeLimit003
    ELSE Fits(d, WholeDoc(d), tl, ff)

PartFits(r, d, pt, tl, ff) ==
    IF r = "part_003" THEN HtmlLen(d, pt, tl) < PartLimit003
    ELSE Fits(d, pt, tl, ff)

\* the check of the whole document, and the first header
SplitBegin ==
    /\ pc = "idle"
    /\ IF WholeFits(rev, doc, titleLen, fmtFails)
       THEN /\ parts' = <<WholeDoc(doc)>>
            /\ currentPart' = currentPart
            /\ idx' = idx
            /\ pc' = "done"
       ELSE /\ parts' = <<>>
            /\ currentPart' = FirstHeader
            /\ idx' = 1
            /\ pc' = "loop"
    /\ UNCHANGED <<doc, fmtFails, titleLen>>
    /\ UNCHANGED <<capsules, testPending, inflight, h, run>>
    /\ UNCHANGED <<seriesVars, limiterVars>>

\* the piece of the Split at index i: a paragraph, or the empty last piece
Piece(d, i) == IF i <= Len(d) THEN <<i>> ELSE <<>>

\* one turn of the loop over the pieces
SplitStep ==
    /\ pc = "loop"
    /\ idx <= Len(doc) + 1
    /\ LET p == Piece(doc, idx)
           test == [currentPart EXCEPT !.paras = @ \o p]
       IN  IF PartFits(rev, doc, test, titleLen, fmtFails)
           THEN /\ currentPart' = test
                /\ parts' = parts
           ELSE /\ parts' = Append(parts, [currentPart EXCEPT !.ftr = "more"])
                /\ currentPart' = ContHeader(Len(parts) + 2, p)
    /\ idx' = idx + 1
    /\ UNCHANGED <<doc, fmtFails, titleLen, pc>>
    /\ UNCHANGED <<capsules, testPending, inflight, h, run>>
    /\ UNCHANGED <<seriesVars, limiterVars>>

\* the last part
SplitEnd ==
    /\ pc = "loop"
    /\ idx > Len(doc) + 1
    /\ parts' = IF currentPart # FirstHeader
                THEN Append(parts, [currentPart EXCEPT !.ftr = "end"])
                ELSE parts
    /\ pc' = "done"
    /\ UNCHANGED <<doc, fmtFails, titleLen, idx, currentPart>>
    /\ UNCHANGED <<capsules, testPending, inflight, h, run>>
    /\ UNCHANGED <<seriesVars, limiterVars>>

InitSplit ==
    /\ capsules = [c \in Chats |-> 1]
    /\ testPending = 0
    /\ inflight = [c \in Chats |-> 0]
    /\ h = NoInvocation
    /\ run = NoRun
    /\ doc \in Docs
    /\ fmtFails \in BOOLEAN
    /\ titleLen = TitleLen
    /\ idx = 0
    /\ parts = <<>>
    /\ currentPart = FirstHeader
    /\ pc = "idle"
    /\ accessToken = TRUE
    /\ SeriesIdle
    /\ LimiterIdle

NextSplit ==
    \/ SplitBegin
    \/ SplitStep
    \/ SplitEnd

SpecSplit == InitSplit /\ [][NextSplit]_vars

----------------------------------------------------------------------------
(* Publication of one document: the choice between one page and a page     *)
(* series made by the caller, Service.CreatePage, Service.EditPage and     *)
(* Service.CreatePageSeries.  Time is counted in seconds; a sleep lasts    *)
(* exactly its duration.  A remote request answers after 0..MaxDuration    *)
(* seconds.  A URL is named by the part its page was created from, 0 for   *)
(* the page of a whole document.                                           *)

Revisions == {"part_002", "part_003"}

Max2(a, b) == IF a >= b THEN a ELSE b

Min2(a, b) == IF a <= b THEN a ELSE b

\* the hours of the window of the documents published here
SeriesHours == Hours(4)

\* htmlSummary of summarize: the line of the statistics, the paragraphs and
\* the footer
SummaryDoc(paras, hours) == <<StatsPiece(hours)>> \o paras \o <<FooterPiece>>

\* the largest single paragraph whose htmlSummary the caller still
\* publishes as one page
RawFitLen ==
    PagingThreshold - (StatsHeaderLen + Digits(SeriesHours)) - ParagraphHtmlLen
      - (FooterLen + ModelNameLen)

\* two paragraphs of this length make a series of two parts
TwoPartLen == PagingThreshold \div 2

SeriesParagraphLens == {1000, TwoPartLen, RawFitLen, RawFitLen + 1}

SeriesDocs ==
    { SummaryDoc([i \in 1..n |-> l], SeriesHours) :
        n \in 1..MaxParas, l \in SeriesParagraphLens }

\* Service.EditPage: as CreatePage, maxRetries remote attempts are started
EditPage(tokenOk, outcomes) ==
    IF ~tokenOk THEN [err |-> TRUE, remote |-> 0]
    ELSE LET ok == { i \in 1..maxRetries : outcomes[i] }
         IN  [err |-> ok = {}, remote |-> Cardinality(ok)]

\* the attempts whose write of page is the last one: the successful
\* attempts that answer last; attempts answering together race
Winners(oks, fin) ==
    { j \in 1..maxRetries : oks[j] /\ \A m \in 1..maxRetries : oks[m] => fin[m] <= fin[j] }

\* seriesHeader for n pages, serialized
RECURSIVE SeriesHeaderJson(_)
SeriesHeaderJson(n) ==
    IF n = 0 THEN SeriesHeaderJsonLen
    ELSE SeriesLinkJsonLen + Digits(n) + UrlLen + SeriesHeaderJson(n - 1)

\* serialized size of the content the call c submits
ContentJsonLen(c) ==
    IF c.op = "create"
    THEN JsonLen(doc, IF c.part = 0 THEN WholeDoc(doc) ELSE parts[c.part], titleLen)
    ELSE SeriesHeaderJson(Len(ser.urls)) + JsonLen(doc, parts[c.part], titleLen)

\* the remote requests of the current call that have not answered yet
InFlight ==
    IF call.pc = "run"
    THEN Cardinality({ j \in 1..call.k : call.fin[j] > call.t })
    ELSE 0

Sleep(n, dt) == [n EXCEPT !.since = Min2(SinceCap, @ + dt)]

\* entry of CreatePage and EditPage: the token check
StartCall(op, part) ==
    IF accessToken
    THEN [NoCall EXCEPT !.pc = "run", !.op = op, !.part = part]
    ELSE [NoCall EXCEPT !.pc = "returned", !.op = op, !.part = part, !.err = TRUE]

\* the caller: a document longer than the threshold is published as a series
PublishDecide ==
    /\ ser.pc = "decide"
    /\ IF NeedsSeries(HtmlLen(doc, WholeDoc(doc), titleLen))
       THEN IF accessToken
            THEN /\ ser' = [ser EXCEPT !.pc = "split", !.series = TRUE]
                 /\ pc' = "idle"
                 /\ call' = call
            ELSE /\ ser' = [ser EXCEPT !.pc = "returned", !.series = TRUE, !.err = TRUE]
                 /\ pc' = pc
                 /\ call' = call
       ELSE /\ ser' = [ser EXCEPT !.pc = "single"]
            /\ pc' = pc
            /\ call' = StartCall("create", 0)
    /\ UNCHANGED <<doc, fmtFails, titleLen, idx, parts, currentPart>>
    /\ UNCHANGED <<accessToken, rev, net>>
    /\ UNCHANGED <<capsules, testPending, inflight, h, run>>
    /\ UNCHANGED limiterVars

\* one turn of the retry loop: the sleep before every attempt but the
\* first, and the goroutine with its remote request
RemoteAttempt(durations) ==
    /\ call.pc = "run"
    /\ call.k < maxRetries
    /\ \E ok \in BOOLEAN, dur \in durations :
         LET k == call.k + 1
             t == IF call.k = 0 THEN 0 ELSE call.t + retryDelay
             slept == IF call.k = 0 THEN net ELSE Sleep(net, retryDelay)
         IN  /\ call' = [call EXCEPT !.k = k, !.t = t, !.oks[k] = ok, !.fin[k] = t + dur]
             /\ net' = [since |-> 0, gap |-> slept.since, sent |-> ContentJsonLen(call)]
    /\ UNCHANGED <<accessToken, rev, ser>>
    /\ UNCHANGED <<splitVars, limiterVars>>
    /\ UNCHANGED <<capsules, testPending, inflight, h, run>>

\* wg.Wait and the result of the call
CallWait ==
    /\ call.pc = "run"
    /\ call.k = maxRetries
    /\ LET end == Max2(call.t, Max2(call.fin[1], Max2(call.fin[2], call.fin[3])))
           res == IF call.op = "create" THEN CreatePage(accessToken, call.oks)
                  ELSE EditPage(accessToken, call.oks)
       IN  /\ net' = Sleep(net, end - call.t)
           /\ \E w \in IF res.err THEN {0} ELSE Winners(call.oks, call.fin) :
                call' = [call EXCEPT !.pc = "returned", !.t = 0,
                                     !.fin = [j \in 1..maxRetries |-> 0],
                                     !.err = res.err, !.url = w]
    /\ UNCHANGED <<accessToken, rev, ser>>
    /\ UNCHANGED <<splitVars, limiterVars>>
    /\ UNCHANGED <<capsules, testPending, inflight, h, run>>

\* the caller of the single page
SingleReturn ==
    /\ ser.pc = "single"
    /\ call.pc = "returned"
    /\ ser' = [ser EXCEPT !.pc = "done", !.err = call.err,
                          !.urls = IF call.err THEN <<>> ELSE <<0>>,
                          !.telegraphURL = IF call.err THEN NoURL ELSE 0]
    /\ call' = [call EXCEPT !.pc = "idle"]
    /\ UNCHANGED <<accessToken, rev, net>>
    /\ UNCHANGED <<splitVars, limiterVars>>
    /\ UNCHANGED <<capsules, testPending, inflight, h, run>>

\* CreatePageSeries, the creation loop: the call for part i
SeriesCreate ==
    /\ ser.pc \in {"split", "create"}
    /\ pc = "done"
    /\ call.pc = "idle"
    /\ LET i == IF ser.pc = "split" THEN 1 ELSE ser.i
       IN  /\ i <= Len(parts)
           /\ ser' = [ser EXCEPT !.pc = "create", !.i = i]
           /\ call' = StartCall("create", i)
    /\ UNCHANGED <<accessToken, rev, net>>
    /\ UNCHANGED <<splitVars, limiterVars>>
    /\ UNCHANGED <<capsules, testPending, inflight, h, run>>

\* the creation loop after CreatePage: a failure is counted and the loop
\* goes on at once, a success is recorded and followed by the throttle
SeriesCreated ==
    /\ ser.pc = "create"
    /\ call.pc = "returned"
    /\ IF call.err
       THEN /\ ser' = [ser EXCEPT !.createErrors = @ + 1, !.i = @ + 1]
            /\ net' = net
       ELSE /\ ser' = [ser EXCEPT !.urls = Append(@, ser.i),
                                  !.pageTitles = Append(@, ser.i),
                                  !.i = @ + 1]
            /\ net' = Sleep(net, pageCreateInterval)
    /\ call' = [call EXCEPT !.pc = "idle"]
    /\ UNCHANGED <<accessToken, rev>>
    /\ UNCHANGED <<splitVars, limiterVars>>
    /\ UNCHANGED <<capsules, testPending, inflight, h, run>>

\* a slip: the series is never given up
SeriesFails_Never(r, createErrors) == FALSE

\* part_002 gives the series up when a part could not be created;
\* part_003 goes on with the pages it has
SeriesFails(r, createErrors) == r = "part_002" /\ createErrors > 0

\* part_002 waits before the edits
EditDelay(r) == IF r = "part_002" THEN 2 * pageCreateInterval ELSE 0

\* after the creation loop
SeriesCheck ==
    /\ ser.pc = "create"
    /\ call.pc = "idle"
    /\ ser.i > Len(parts)
    /\ IF SeriesFails(rev, ser.createErrors)
       THEN /\ ser' = [ser EXCEPT !.pc = "returned", !.err = TRUE]
            /\ net' = net
       ELSE IF ser.urls = <<>>
       THEN /\ ser' = [ser EXCEPT !.pc = "returned", !.err = TRUE]
            /\ net' = net
       ELSE /\ ser' = [ser EXCEPT !.pc = "edit", !.i = 1]
            /\ net' = Sleep(net, EditDelay(rev))
    /\ UNCHANGED <<accessToken, rev, call>>
    /\ UNCHANGED <<splitVars, limiterVars>>
    /\ UNCHANGED <<capsules, testPending, inflight, h, run>>

\* the edit loop: the call for the page urls[i], with seriesHeader + parts[i]
SeriesEdit ==
    /\ ser.pc = "edit"
    /\ call.pc = "idle"
    /\ ser.i <= Len(ser.urls)
    /\ call' = StartCall("edit", ser.i)
    /\ UNCHANGED <<accessToken, rev, ser, net>>
    /\ UNCHANGED <<splitVars, limiterVars>>
    /\ UNCHANGED <<capsules, testPending, inflight, h, run>>

\* a slip: the edit loop is left at the first edit that fails
NextEdit_StopsOnError(i, n, err) == IF err THEN n + 1 ELSE i + 1

\* the edit loop goes on whatever the edit returned
NextEdit(i, n, err) == i + 1

\* the edit loop after EditPage; edited keeps, for each page in turn, the
\* part its content was replaced with, 0 when the edit failed
SeriesEdited ==
    /\ ser.pc = "edit"
    /\ call.pc = "returned"
    /\ ser' = [ser EXCEPT !.edited = Append(@, IF call.err THEN 0 ELSE call.part),
                          !.editErrors = @ + (IF call.err THEN 1 ELSE 0),
                          !.i = NextEdit(ser.i, Len(ser.urls), call.err)]
    /\ net' = Sleep(net, pageCreateInterval)
    /\ call' = [call EXCEPT !.pc = "idle"]
    /\ UNCHANGED <<accessToken, rev>>
    /\ UNCHANGED <<splitVars, limiterVars>>
    /\ UNCHANGED <<capsules, testPending, inflight, h, run>>

\* the return of the URL list
SeriesReturn ==
    /\ ser.pc = "edit"
    /\ call.pc = "idle"
    /\ ser.i > Len(ser.urls)
    /\ ser' = [ser EXCEPT !.pc = "returned", !.err = FALSE]
    /\ UNCHANGED <<accessToken, rev, call, net>>
    /\ UNCHANGED <<splitVars, limiterVars>>
    /\ UNCHANGED <<capsules, testPending, inflight, h, run>>

\* the caller of the series: the first URL is the link of the message
Deliver ==
    /\ ser.pc = "returned"
    /\ ser' = [ser EXCEPT !.pc = "done",
                          !.telegraphURL = IF ~ser.err /\ Len(ser.urls) > 0
                                           THEN ser.urls[1] ELSE NoURL]
    /\ UNCHANGED <<accessToken, rev, call, net>>
    /\ UNCHANGED <<splitVars, limiterVars>>
    /\ UNCHANGED <<capsules, testPending, inflight, h, run>>

\* the mark of a page whose content DeletePage replaced
Deleted == 0 - 1

\* Service.DeletePage called by another goroutine for page i of the series:
\* one of its remote EditPage requests.  A request that succeeds on a page
\* already edited replaces the content of the page.
DeleteRequest(i) ==
    /\ accessToken
    /\ ser.pc # "done"
    /\ i \in 1..Len(ser.urls)
    /\ \E ok \in BOOLEAN :
         ser' = IF ok /\ i <= Len(ser.edited)
                THEN [ser EXCEPT !.edited[i] = Deleted]
                ELSE ser
    /\ net' = [since |-> 0, gap |-> net.since, sent |-> net.sent]
    /\ UNCHANGED <<accessToken, rev, call>>
    /\ UNCHANGED <<splitVars, limiterVars>>
    /\ UNCHANGED <<capsules, testPending, inflight, h, run>>

\* a remote request of another publication running at the same time: the
\* paging test started with the service, a manual recap, another run
OtherRequest ==
    /\ accessToken
    /\ ser.pc \notin {"off", "done"}
    /\ net' = [since |-> 0, gap |-> net.since, sent |-> net.sent]
    /\ UNCHANGED <<accessToken, rev, ser, call>>
    /\ UNCHANGED <<splitVars, limiterVars>>
    /\ UNCHANGED <<capsules, testPending, inflight, h, run>>

\* htmlSummary of a batch as a document: a heading goes with the piece
\* after it
RECURSIVE BatchPieces(_, _)
BatchPieces(ps, heading) ==
    IF ps = <<>> THEN <<FooterPiece - heading>>
    ELSE IF HasH2Prefix(Head(ps))
    THEN BatchPieces(Tail(ps), heading + ParagraphHtml(Head(ps)))
    ELSE <<heading + ByteLen(MarkdownToHtml(Head(ps)))>> \o BatchPieces(Tail(ps), 0)

BatchDoc(paragraphs, hours) == <<StatsPiece(hours)>> \o BatchPieces(paragraphs, 0)

\* the head of one turn of the loop over the batches: GenSarcasticCondensed
\* and its fallback, and htmlSummary handed to the publication
RunBatch(earlierRuns) ==
    /\ run.pc = "batch"
    /\ ser.pc = "off"
    /\ LET b == run.batches[run.bi]
           hours == Hours(run.options.rates)
       IN  /\ \E res \in CondenseResults, earlier \in earlierRuns :
                run' = [run EXCEPT
                          !.pc = "publish",
                          !.pinnedRecs = IF run.bi = 1
                                         THEN PriorPinned(run.chat, earlier) ELSE @,
                          !.condenseCalls = @ + 1,
                          !.publishCalls = @ + 1,
                          !.condenseErr = res.err,
                          !.condenseText = res.text,
                          !.condensed = CondensedSummary(res, b, hours)]
           /\ \E paragraphs \in {Paragraphs(b)} : doc' = BatchDoc(paragraphs, hours)
    /\ fmtFails' = FALSE
    /\ titleLen' = TitleLen
    /\ idx' = 0
    /\ parts' = <<>>
    /\ currentPart' = FirstHeader
    /\ pc' = "off"
    /\ ser' = [SerOff EXCEPT !.pc = "decide"]
    /\ call' = NoCall
    /\ UNCHANGED <<accessToken, rev, net>>
    /\ UNCHANGED <<capsules, testPending, inflight, h>>
    /\ UNCHANGED limiterVars

\* what the publication returned to the loop over the batches
Published(s) == [err |-> s.err \/ s.telegraphURL = NoURL]

\* after CreatePage or CreatePageSeries: a batch whose page could not be
\* created is left out, the others go to the loop over the targets; the
\* frames of the publication are gone
RunPublished ==
    /\ run.pc = "publish"
    /\ ser.pc = "done"
    /\ LET page == Published(ser)
           r == [run EXCEPT !.published = IF page.err THEN @ ELSE @ \cup {run.bi},
                            !.url = IF page.err THEN NoURL ELSE ser.telegraphURL,
                            !.editCalls = @ + Len(ser.edited)]
       IN  run' = IF SkipsBatch(page)
                  THEN IF Len(run.batches) = 1 THEN Done(r, "publish_failed")
                       ELSE NextBatch(r)
                  ELSE IF Len(run.targets) = 0 THEN NextBatch(r)
                  ELSE [r EXCEPT !.pc = "send", !.tgtIdx = 1]
    /\ doc' = <<>>
    /\ fmtFails' = FALSE
    /\ titleLen' = 0
    /\ idx' = 0
    /\ parts' = <<>>
    /\ currentPart' = NoPart
    /\ pc' = "off"
    /\ ser' = SerOff
    /\ call' = NoCall
    /\ UNCHANGED <<accessToken, rev, net>>
    /\ UNCHANGED <<capsules, testPending, inflight, h>>
    /\ UNCHANGED limiterVars

InitSeries ==
    /\ capsules = [c \in Chats |-> 1]
    /\ testPending = 0
    /\ inflight = [c \in Chats |-> 0]
    /\ h = NoInvocation
    /\ run = NoRun
    /\ doc \in SeriesDocs
    /\ fmtFails = FALSE
    /\ titleLen = TitleLen
    /\ idx = 0
    /\ parts = <<>>
    /\ currentPart = FirstHeader
    /\ pc = "off"
    /\ accessToken \in BOOLEAN
    /\ rev \in Revisions
    /\ ser = [SerOff EXCEPT !.pc = "decide"]
    /\ LimiterIdle
    /\ call = NoCall
    /\ net = NetIdle

NextSeries ==
    \/ PublishDecide
    \/ SplitBegin
    \/ SplitStep
    \/ SplitEnd
    \/ RemoteAttempt(0..MaxDuration)
    \/ CallWait
    \/ SingleReturn
    \/ SeriesCreate
    \/ SeriesCreated
    \/ SeriesCheck
    \/ SeriesEdit
    \/ SeriesEdited
    \/ SeriesReturn
    \/ Deliver
    \/ DeleteRequest(1)
    \/ OtherRequest

SpecSeries == InitSeries /\ [][NextSeries]_vars

----------------------------------------------------------------------------
(* The rate limiter of the sends.  summarize makes its limiter itself      *)
(* (ratelimit.New(5)) and calls Take before each recap send.  Take returns *)
(* at once on a new limiter; later it sleeps until one fifth of a second   *)
(* has passed since the Take before it, less the time a pause left unused  *)
(* (up to ten fifths).  Time is counted in fifths of a second.             *)

\* the run of chat c comes to ratelimit.New(5) with n turns of the loop
\* over the targets ahead
LimiterNew(c) ==
    /\ inflight[c] > 0
    /\ ~limiters[c].on
    /\ \E n \in 1..MaxSends :
         limiters' = [limiters EXCEPT
                        ![c] = [on |-> TRUE, last |-> 0 - 1, sleepFor |-> 0, todo |-> n,
                                taken |-> FALSE]]
    /\ UNCHANGED <<clock, sends>>
    /\ UNCHANGED <<capsules, testPending, inflight, h, run>>
    /\ UNCHANGED <<splitVars, seriesVars>>

\* Take at time now: the time still to sleep, which the time left unused
\* since the Take before makes negative, down to the slack
SleepFor(l, now) ==
    LET sf == l.sleepFor + 1 - (now - l.last)
    IN  IF sf < 0 - DefaultSlack THEN 0 - DefaultSlack ELSE sf

\* limiter.Take() may return: the first Take, or nothing left to sleep
MayTake(l, now) == l.last < 0 \/ SleepFor(l, now) <= 0

\* limiter.Take() returns in the run of chat c: the head of one turn of the
\* loop over the targets
LimiterTake(c) ==
    /\ limiters[c].on
    /\ limiters[c].todo > 0
    /\ ~limiters[c].taken
    /\ MayTake(limiters[c], clock)
    /\ limiters' = [limiters EXCEPT
                    ![c].sleepFor = IF limiters[c].last < 0 THEN 0
                                    ELSE SleepFor(limiters[c], clock),
                    ![c].last = clock, ![c].taken = TRUE]
    /\ UNCHANGED <<clock, sends>>
    /\ UNCHANGED <<capsules, testPending, inflight, h, run>>
    /\ UNCHANGED <<splitVars, seriesVars>>

\* the rest of the turn, at the time the run comes to it: the keyboard of a
\* private message was made and the send starts, or it could not be made and
\* the loop goes to its next target with no send
LimiterSend(c) ==
    /\ limiters[c].on
    /\ limiters[c].taken
    /\ limiters' = [limiters EXCEPT ![c].taken = FALSE, ![c].todo = @ - 1]
    /\ \E keyboardErr \in BOOLEAN :
         sends' = IF keyboardErr THEN sends ELSE Append(sends, clock)
    /\ UNCHANGED clock
    /\ UNCHANGED <<capsules, testPending, inflight, h, run>>
    /\ UNCHANGED <<splitVars, seriesVars>>

\* the run of chat c has sent everything and returns
LimiterDone(c) ==
    /\ limiters[c].on
    /\ limiters[c].todo = 0
    /\ ~limiters[c].taken
    /\ inflight' = [inflight EXCEPT ![c] = @ - 1]
    /\ limiters' = [limiters EXCEPT ![c] = NoLimiter]
    /\ UNCHANGED <<clock, sends>>
    /\ UNCHANGED <<capsules, testPending, h, run>>
    /\ UNCHANGED <<splitVars, seriesVars>>

\* the sends that started within the second that ends at time now
RECURSIVE LastSecond(_, _)
LastSecond(ts, now) ==
    IF ts = <<>> THEN <<>>
    ELSE IF now - Head(ts) < TakesPerSecond THEN ts
    ELSE LastSecond(Tail(ts), now)

\* a fifth of a second passes
Tick ==
    /\ clock < MaxTicks
    /\ clock' = clock + 1
    /\ sends' = LastSecond(sends, clock + 1)
    /\ UNCHANGED limiters
    /\ UNCHANGED <<capsules, testPending, inflight, h, run>>
    /\ UNCHANGED <<splitVars, seriesVars>>

\* every chat has one run in flight, as the pool admits
InitLimiter ==
    /\ capsules = [c \in Chats |-> 1]
    /\ testPending = 0
    /\ inflight = [c \in Chats |-> 1]
    /\ h = NoInvocation
    /\ run = NoRun
    /\ SplitIdle
    /\ accessToken = TRUE
    /\ SeriesIdle
    /\ LimiterIdle

NextLimiter ==
    \/ \E c \in Chats : LimiterNew(c)
    \/ \E c \in Chats : LimiterTake(c)
    \/ \E c \in Chats : LimiterSend(c)
    \/ \E c \in Chats : LimiterDone(c)
    \/ Tick

SpecLimiter == InitLimiter /\ [][NextLimiter]_vars

----------------------------------------------------------------------------
(* The handler and the runs it dispatches, as specifications. *)

\* the chat of the run followed step by step
DeliverChat == 1

Init ==
    /\ capsules = [c \in Chats |-> 1]
    /\ testPending \in {0, 1}
    /\ inflight = [c \in Chats |-> 0]
    /\ h = NoInvocation
    /\ run = NoRun
    /\ SplitIdle
    /\ accessToken = TRUE
    /\ SeriesIdle
    /\ LimiterIdle

\* the options and the subscriber lists read by the digger's invocations
HandlerOptions ==
    { Opt(AutoRecapSendModePublicly, 4, TRUE),
      Opt(AutoRecapSendModeOnlyPrivateSubscriptions, 3, FALSE) }

HandlerSubscribers == { <<>>, <<11>> }

Next ==
    \/ \E c \in Chats : Fire(c)
    \/ TestFire
    \/ \E c \in Chats : CallbackQueue(c)
    \/ ReadEnabled("digger", FailuresBeforeSuccess, BOOLEAN)
    \/ ReadOptions("digger", {0, ReadAttempts}, HandlerOptions)
    \/ ReadSubscribers("digger", {0, ReadAttempts}, HandlerSubscribers)
    \/ ReadEnabled("test", {0, ReadAttempts}, BOOLEAN)
    \/ ReadOptions("test", {0, ReadAttempts}, {Opt(AutoRecapSendModePublicly, 4, TRUE)})
    \/ ReadSubscribers("test", {0, ReadAttempts}, {<<>>})
    \/ \E i \in Invokers : HandleErrors(i)
    \/ \E i \in Invokers : RequeueAndDispatch(i, MaxInflight)
    \/ \E c \in Chats : RunReturn(c)

Spec == Init /\ [][Next]_vars

(* One run: the start-up test invocation of the handler, and the run it   *)
(* dispatches followed step by step, each external call a step of its own. *)
InitRun ==
    /\ capsules = [c \in Chats |-> 1]
    /\ testPending = DeliverChat
    /\ inflight = [c \in Chats |-> 0]
    /\ h = NoInvocation
    /\ run = NoRun
    /\ SplitIdle
    /\ accessToken \in BOOLEAN
    /\ SeriesIdle
    /\ LimiterIdle

\* the store's unsubscribe succeeds at the first call or at the second
EarlyFailures == {0, 1}

NextRun ==
    \/ TestFire
    \/ ReadEnabled("test", {0, ReadAttempts}, BOOLEAN)
    \/ ReadOptions("test", {0, ReadAttempts}, OptionValues)
    \/ ReadSubscribers("test", {0, ReadAttempts}, SubscriberLists)
    \/ HandleErrors("test")
    \/ RequeueAndDispatch("test", MaxInflight)
    \/ RunBegin
    \/ RunStart
    \/ RunFindHistories
    \/ RunSummarize(SummaryLists)
    \/ RunVoteKeyboard
    \/ RunFilter
    \/ RunMember(EarlyFailures)
    \/ RunUnsubscribe
    \/ RunNotice
    \/ RunBatch(BOOLEAN)
    \/ PublishDecide
    \/ RemoteAttempt({0})
    \/ CallWait
    \/ SingleReturn
    \/ RunPublished
    \/ RunTake
    \/ RunKeyboard(SendFaults)
    \/ RunSendMessage(SendFaults)
    \/ RunSave(SendFaults)
    \/ RunLookup(SendFaults)
    \/ RunUnpin(SendFaults)
    \/ RunUpdate(SendFaults)
    \/ RunPin(SendFaults)
    \/ RunSavePinned(SendFaults)
    \/ RunExit

SpecRun == InitRun /\ [][NextRun]_vars

\* no summary, a short one, or one longer than a page and a short one,
\* which make two batches
FairSummaryLists == { <<>>, << <<"a">> >>, <<LongText, <<"a">> >> }

\* The run with at most two batches and one subscriber, whose unsubscribe may
\* take every call of its thousand and whose first batch may need a series
\* of pages, with every step taken in the end: each external call returns and
\* the goroutine of the run is scheduled.
NextRunFair ==
    \/ TestFire
    \/ ReadEnabled("test", {0, ReadAttempts}, BOOLEAN)
    \/ ReadOptions("test", {0, ReadAttempts}, OptionValues)
    \/ ReadSubscribers("test", {0, ReadAttempts}, HandlerSubscribers)
    \/ HandleErrors("test")
    \/ RequeueAndDispatch("test", MaxInflight)
    \/ RunBegin
    \/ RunStart
    \/ RunFindHistories
    \/ RunSummarize(FairSummaryLists)
    \/ RunVoteKeyboard
    \/ RunFilter
    \/ RunMember(UnsubscribeFailures)
    \/ RunUnsubscribe
    \/ RunNotice
    \/ RunBatch({FALSE})
    \/ PublishDecide
    \/ SplitBegin
    \/ SplitStep
    \/ SplitEnd
    \/ RemoteAttempt({0})
    \/ CallWait
    \/ SingleReturn
    \/ SeriesCreate
    \/ SeriesCreated
    \/ SeriesCheck
    \/ SeriesEdit
    \/ SeriesEdited
    \/ SeriesReturn
    \/ Deliver
    \/ RunPublished
    \/ RunTake
    \/ RunKeyboard(SendFaults)
    \/ RunSendMessage(SendFaults)
    \/ RunSave(SendFaults)
    \/ RunLookup(SendFaults)
    \/ RunUnpin(SendFaults)
    \/ RunUpdate(SendFaults)
    \/ RunPin(SendFaults)
    \/ RunSavePinned(SendFaults)
    \/ RunExit

SpecRunFair == InitRun /\ [][NextRunFair]_vars /\ WF_vars(NextRunFair)

\* the handler's frame at the return that dispatched the run
DispatchedFrame(c, options, subscribers) ==
    [IdleFrame EXCEPT
       !.pc = "returned", !.chat = c, !.enCalls = 1, !.optCalls = 1, !.subCalls = 1,
       !.enabled = TRUE, !.options = options, !.subscribers = subscribers,
       !.schedCalls = 1, !.dispatched = TRUE]

(* The loop over the subscribers: the run is followed from its first turn *)
(* (line 695), the summaries filtered, and every unsubscribe call a step.  *)
(* The run has its options: without them it ended at line 564.            *)
MembersSubscribers == { <<11>>, <<11, 12>> }

\* the run's frame when the loop over the subscribers starts
MembersFrame(c, options, subscribers, ss) ==
    [NewRun(c, options, subscribers) EXCEPT
       !.pc = "members", !.nHist = MinHistories + 1, !.summarizerCalls = 1,
       !.summaries = ss, !.batches = MessageGroups(ss),
       !.targets = IF GroupIsTarget(options) THEN <<GroupTarget(c)>> ELSE <<>>]

InitMembers ==
    /\ capsules = [c \in Chats |-> 1]
    /\ testPending = 0
    /\ inflight = [c \in Chats |-> IF c = DeliverChat THEN 1 ELSE 0]
    /\ \E options \in OptionValues \ {NilOptions}, subscribers \in MembersSubscribers :
         /\ h = [NoInvocation EXCEPT !["test"] = DispatchedFrame(DeliverChat, options, subscribers)]
         /\ run = MembersFrame(DeliverChat, options, subscribers, <<MarkedText>>)
    /\ SplitIdle
    /\ accessToken = TRUE
    /\ SeriesIdle
    /\ LimiterIdle

NextMembers ==
    \/ RunMember(UnsubscribeFailures)
    \/ RunUnsubscribe
    \/ RunNotice
    \/ RunBatch({FALSE})
    \/ PublishDecide
    \/ RemoteAttempt({0})
    \/ CallWait
    \/ SingleReturn
    \/ RunPublished
    \/ RunTake
    \/ RunKeyboard(SendFaults)
    \/ RunSendMessage(SendFaults)
    \/ RunSave(SendFaults)
    \/ RunLookup(SendFaults)
    \/ RunUnpin(SendFaults)
    \/ RunUpdate(SendFaults)
    \/ RunPin(SendFaults)
    \/ RunSavePinned(SendFaults)
    \/ RunExit

SpecMembers == InitMembers /\ [][NextMembers]_vars

(* The same handler when every read succeeds at its first call, with as    *)
(* many runs in flight as one pool admits, and more.                       *)
NextPool ==
    \/ \E c \in Chats : Fire(c)
    \/ TestFire
    \/ \E c \in Chats : CallbackQueue(c)
    \/ \E i \in Invokers : ReadEnabled(i, {0}, {TRUE})
    \/ \E i \in Invokers : ReadOptions(i, {0}, {Opt(AutoRecapSendModePublicly, 4, TRUE)})
    \/ \E i \in Invokers : ReadSubscribers(i, {0}, {<<>>})
    \/ \E i \in Invokers : HandleErrors(i)
    \/ \E i \in Invokers : RequeueAndDispatch(i, PoolMaxGoroutines + MaxOverflow)
    \/ \E c \in Chats : RunReturn(c)

SpecPool == Init /\ [][NextPool]_vars

(* The delivery of a run whose summaries were split into one batch or into *)
(* several: the run is followed from the first batch (line 769), with the  *)
(* targets resolved, every subscriber of the chat being a member of it.    *)
(* A batch is published as one page, or, when its summary is longer than   *)
(* a page, as a series.                                                    *)
DeliverOptions ==
    { Opt(AutoRecapSendModePublicly, 4, TRUE),
      Opt(AutoRecapSendModePublicly, 4, FALSE),
      Opt(AutoRecapSendModeOnlyPrivateSubscriptions, 3, TRUE) }

DeliverSubscribers == { <<>>, <<11>> }

\* the groups of SplitMessagesAgainstLengthLimitIntoMessageGroups for
\* summaries too long to share a message: one summary a group; and one
\* summary longer than a page
DeliverBatches ==
    { [i \in 1..n |-> <<Rep("a", CondensedFallbackLen + 1)>>] : n \in 1..MaxBatches }
      \cup { << <<LongText>> >> }

RECURSIVE Flatten(_)
Flatten(g) == IF g = <<>> THEN <<>> ELSE Head(g) \o Flatten(Tail(g))

\* the run's frame when the loop over the batches starts
DeliverFrame(c, options, subscribers, g) ==
    [NewRun(c, options, subscribers) EXCEPT
       !.pc = "batch", !.nHist = MinHistories + 1, !.summarizerCalls = 1,
       !.summaries = Flatten(g), !.batches = g,
       !.targets = (IF GroupIsTarget(options) THEN <<GroupTarget(c)>> ELSE <<>>)
                     \o [i \in 1..Len(subscribers) |-> PrivateTarget(subscribers[i])],
       !.subIdx = Len(subscribers) + 1,
       !.memberResults = [i \in 1..Len(subscribers) |-> "member"]]

InitDeliver ==
    /\ capsules = [c \in Chats |-> 1]
    /\ testPending = 0
    /\ inflight = [c \in Chats |-> IF c = DeliverChat THEN 1 ELSE 0]
    /\ \E options \in DeliverOptions, subscribers \in DeliverSubscribers,
          g \in DeliverBatches :
         /\ ~SkipsPrivateOnly(DispatchedFrame(DeliverChat, options, subscribers))
         /\ h = [NoInvocation EXCEPT !["test"] = DispatchedFrame(DeliverChat, options, subscribers)]
         /\ run = DeliverFrame(DeliverChat, options, subscribers, g)
    /\ SplitIdle
    /\ accessToken \in BOOLEAN
    /\ SeriesIdle
    /\ LimiterIdle

NextDeliver ==
    \/ RunBatch(BOOLEAN)
    \/ PublishDecide
    \/ SplitBegin
    \/ SplitStep
    \/ SplitEnd
    \/ RemoteAttempt({0})
    \/ CallWait
    \/ SingleReturn
    \/ SeriesCreate
    \/ SeriesCreated
    \/ SeriesCheck
    \/ SeriesEdit
    \/ SeriesEdited
    \/ SeriesReturn
    \/ Deliver
    \/ RunPublished
    \/ RunTake
    \/ RunKeyboard(AllFaults)
    \/ RunSendMessage(AllFaults)
    \/ RunSave(AllFaults)
    \/ RunLookup(AllFaults)
    \/ RunUnpin(AllFaults)
    \/ RunUpdate(AllFaults)
    \/ RunPin(AllFaults)
    \/ RunSavePinned(AllFaults)
    \/ RunExit

SpecDeliver == InitDeliver /\ [][NextDeliver]_vars

----------------------------------------------------------------------------
(* Properties *)

Returned(i) == h[i].pc = "returned"

Finished == run.pc \in {"done", "returned"}

\* C1, as claimed: every invocation of the handler has called the schedule
\* operation at least once when it returns, on every exit path.
C1_AlwaysReschedules ==
    \A i \in Invokers : Returned(i) => h[i].schedCalls >= 1

\* C2, as claimed: when the enabled read succeeds and reports disabled, no
\* run is dispatched and the schedule operation has been called at the return.
C2_DisabledStillReschedules ==
    \A i \in Invokers :
        (Returned(i) /\ ~h[i].enErr /\ ~h[i].enabled) =>
            (~h[i].dispatched /\ h[i].schedCalls >= 1)

\* C3, as claimed: each read is attempted at most 10 times, and when one of
\* the three reads has exhausted its attempts no run is dispatched.
C3_FailedReadAborts ==
    \A i \in Invokers :
        Returned(i) =>
            /\ h[i].enCalls <= 10 /\ h[i].optCalls <= 10 /\ h[i].subCalls <= 10
            /\ (Errs(h[i]) > 0 => ~h[i].dispatched)

\* C4, as claimed: at most 20 summarize runs are in flight across all chats.
C4_PoolBound == Total(inflight) <= 20

\* C5, as claimed: at most one summarize run per chat is in flight.
C5_OneRunPerChat == \A c \in Chats : inflight[c] <= 1

\* C6: a run whose window holds fewer than 6 messages ends before the
\* summarizer is called, with no page and no message, its chat having been
\* rescheduled by the invocation that dispatched it; a window of 6 or more
\* messages goes on to the summarizer.
C6_ShortWindowEndsRun ==
    /\ (Finished /\ run.nHist >= 0 /\ run.nHist < 6) =>
          /\ run.outcome = "not_enough"
          /\ run.summarizerCalls = 0 /\ run.condenseCalls = 0
          /\ run.publishCalls = 0 /\ run.published = {}
          /\ run.sendAttempts = <<>> /\ run.notices = <<>>
          /\ \E i \in Invokers :
                h[i].dispatched /\ h[i].chat = run.chat /\ h[i].schedCalls >= 1
    /\ (run.pc # "none" /\ run.nHist >= 6) =>
          (run.pc = "summarize" \/ run.summarizerCalls = 1)

C6_Witness ==
    Finished /\ run.nHist = 5 /\ run.outcome = "not_enough"
      /\ h["test"].schedCalls >= 1

\* C7, as claimed: no summary made of whitespace only is kept for
\* publishing, and when every summary is whitespace only the run ends
\* without a page and without a recap message.
AllBlank(ss) == \A i \in 1..Len(ss) : TrimSpace(ss[i]) = <<>>

C7_BlankSummariesEndRun ==
    (Finished /\ run.summarizerCalls = 1 /\ AllBlank(run.summaries)) =>
        (run.published = {} /\ run.sendAttempts = <<>>)

\* C8, as claimed: when GenSarcasticCondensed returns an error or an empty
\* result, the condensed summary of the message is the first topic summary
\* cut at 50 bytes (with or without the ellipsis the code appends), or the
\* placeholder when there is no summary.
Cut50(t) == IF ByteLen(t) > 50 THEN Prefix(t, 50) ELSE t

C8_CondenseFallback ==
    (run.pc \in {"send", "done", "returned"} /\ run.condenseCalls > 0
       /\ (run.condenseErr \/ run.condenseText = <<>>)) =>
        /\ run.outcome \in {"running", "completed", "publish_failed"}
        /\ IF Len(run.batches[run.bi]) = 0
           THEN run.condensed = Placeholder(Hours(run.options.rates))
           ELSE run.condensed \in { Cut50(run.batches[run.bi][1]),
                                    Cut50(run.batches[run.bi][1]) \o Ellipsis }
        /\ \A i \in 1..Len(run.recaps) :
             run.recaps[i].b = run.bi => run.recaps[i].condensed = run.condensed

SplitDone == pc = "done"

Budget == pageSizeLimit - safetyBuffer

\* C9, as claimed: a document whose serialized size is at most the budget
\* comes back as exactly one page, identical to the input.
C9_FitsAtMostBudget ==
    (SplitDone /\ ~fmtFails /\ JsonLen(doc, WholeDoc(doc), titleLen) <= Budget) =>
        parts = <<WholeDoc(doc)>>

\* C9, amended: a document whose serialized size is strictly below
\* pageSizeLimit minus safetyBuffer comes back as exactly one page,
\* identical to the input.
C9_FitsBelowBudget ==
    (SplitDone /\ ~fmtFails /\ JsonLen(doc, WholeDoc(doc), titleLen) < Budget) =>
        parts = <<WholeDoc(doc)>>

C9_Witness ==
    /\ SplitDone /\ ~fmtFails
    /\ JsonLen(doc, WholeDoc(doc), titleLen) = Budget - 1
    /\ parts = <<WholeDoc(doc)>>

\* C10, as claimed: when the document exceeds the budget, every returned
\* page, with its header and its footer, has a serialized size of at most
\* pageSizeLimit minus safetyBuffer.
C10_PagesWithinBudget ==
    (SplitDone /\ ~fmtFails /\ JsonLen(doc, WholeDoc(doc), titleLen) > Budget) =>
        \A i \in 1..Len(parts) : JsonLen(doc, parts[i], titleLen) <= Budget

\* the paragraphs of the returned pages, headers and footers removed, in order
RECURSIVE PagesParagraphs(_)
PagesParagraphs(ps) ==
    IF ps = <<>> THEN <<>> ELSE Head(ps).paras \o PagesParagraphs(Tail(ps))

WasSplit == SplitDone /\ ~Fits(doc, WholeDoc(doc), titleLen, fmtFails)

\* C11: for a document that is split, the pages without their injected
\* headers and footers, concatenated in order, are the original paragraph
\* sequence: every paragraph once, in order, inside one page.
C11_PagesKeepParagraphs ==
    WasSplit => PagesParagraphs(parts) = [i \in 1..Len(doc) |-> i]

C11_Witness ==
    /\ WasSplit
    /\ Len(doc) = 3
    /\ Len(parts) = 2
    /\ parts[1].paras = <<1, 2>>
    /\ parts[2].paras = <<3>>

\* the serialized size of paragraph i on a page of its own, no header or footer
AloneJsonLen(d, i) == JsonWrapLen + PieceJson(d, i)

\* C12, as claimed: when one paragraph by itself exceeds the budget, a
\* fallback keeps every emitted page within the page size limit and no
\* paragraph is dropped.
C12_OversizedParagraphFallback ==
    (SplitDone /\ ~fmtFails /\ \E i \in 1..Len(doc) : AloneJsonLen(doc, i) > pageSizeLimit) =>
        /\ \A k \in 1..Len(parts) : JsonLen(doc, parts[k], titleLen) <= pageSizeLimit
        /\ PagesParagraphs(parts) = [i \in 1..Len(doc) |-> i]

SeriesReturned == ser.series /\ ser.pc \in {"returned", "done"}

\* C13, as claimed: every content submitted to the publishing service, by
\* CreatePage on the single-page path and by CreatePage and EditPage in a
\* series, has a serialized size of at most the byte budget.
C13_SubmittedWithinBudget ==
    (call.pc = "run" /\ call.k > 0) => net.sent <= pageSizeLimit

\* C14: CreatePage and EditPage make at most maxRetries remote attempts,
\* one retryDelay apart; the call returns an error exactly when all of its
\* attempts failed, and otherwise the URL given by a successful attempt.
C14_AttemptsAndResult ==
    /\ call.k <= maxRetries
    /\ (call.pc = "run" /\ call.k > 0) => call.t = (call.k - 1) * retryDelay
    /\ call.pc = "returned" =>
         /\ call.err <=> \A j \in 1..call.k : ~call.oks[j]
         /\ ~call.err => (call.url \in 1..call.k /\ call.oks[call.url])

C14_Witness ==
    /\ call.pc = "returned"
    /\ call.op = "edit"
    /\ ~call.err
    /\ call.k = maxRetries
    /\ ~call.oks[1] /\ ~call.oks[2] /\ call.oks[3]
    /\ call.url = 3

\* C15: when every part was created and one or more edits fail, the
\* remaining edits are still attempted and the full URL list is returned
\* with no error.
C15_EditFailuresTolerated ==
    (SeriesReturned /\ ser.createErrors = 0 /\ ser.editErrors > 0) =>
        /\ ~ser.err
        /\ Len(ser.edited) = Len(parts)
        /\ ser.urls = [i \in 1..Len(parts) |-> i]

C15_Witness ==
    /\ SeriesReturned
    /\ ~ser.err
    /\ Len(parts) = 2
    /\ ser.urls = <<1, 2>>
    /\ ser.edited = <<0, 2>>

\* C16: a series returned without error has one URL per part, in part
\* order, at least one, and the caller takes the first as the link of the
\* message; when the creation of a part failed the series returns an error
\* and no page is edited.
C16_SeriesResult ==
    (rev = "part_002" /\ ser.series) =>
        /\ (SeriesReturned /\ ~ser.err) =>
             (Len(ser.urls) >= 1 /\ ser.urls = [i \in 1..Len(parts) |-> i])
        /\ (ser.pc = "done" /\ ~ser.err) => ser.telegraphURL = ser.urls[1]
        /\ ser.pc = "edit" => ser.createErrors = 0
        /\ (SeriesReturned /\ ser.createErrors > 0) => (ser.err /\ ser.edited = <<>>)

C16_Witness ==
    /\ rev = "part_002"
    /\ ser.series
    /\ ser.pc = "done"
    /\ ~ser.err
    /\ Len(parts) = 2
    /\ ser.urls = <<1, 2>>
    /\ ser.telegraphURL = 1

\* C17, as claimed: after a series returned without error and with every
\* edit succeeding, every page holds the index followed by the part the
\* page was created from, never another part.
C17_PagesHoldOwnPart ==
    (SeriesReturned /\ ~ser.err /\ ser.editErrors = 0) =>
        \A i \in 1..Len(ser.urls) : ser.edited[i] = ser.urls[i]

\* C18, as claimed: at most one request to the publishing service is in
\* flight at any time.
C18_OneRequestInFlight == InFlight <= 1

\* C19, as claimed: between two consecutive remote requests of one
\* publication at least pageCreateInterval elapses.
C19_ThrottleBetweenRequests ==
    (call.pc = "run" /\ call.k > 0) => net.gap >= pageCreateInterval

\* the subscribers whose membership check returned an allowed status
AllowedSubscribers(r) ==
    { r.subscribers[i] : i \in { j \in 1..Len(r.memberResults) :
                                   r.memberResults[j] \in AllowedStatuses } }

\* the targets the run should deliver to
ExpectedTargets(r) ==
    (IF r.options.isNil \/ r.options.mode = AutoRecapSendModePublicly
     THEN {GroupTarget(r.chat)} ELSE {})
      \cup { PrivateTarget(u) : u \in AllowedSubscribers(r) }

\* the run ended before the targets were resolved, for want of input
EndedBeforeTargets(r) ==
    r.outcome \in { "getchat_failed", "histories_failed", "not_enough",
                    "summarize_failed", "keyboard_failed", "empty" }

\* C20, as claimed: the targets of a run are the group chat exactly when
\* the send mode is Publicly or the options are absent, and every
\* subscriber whose membership check returned an allowed status; in
\* private-only mode the group chat receives no recap.
C20_TargetSet ==
    (run.pc \in {"done", "returned"} /\ ~EndedBeforeTargets(run)) =>
        /\ { run.targets[i] : i \in 1..Len(run.targets) } = ExpectedTargets(run)
        /\ (~run.options.isNil /\ run.options.mode = AutoRecapSendModeOnlyPrivateSubscriptions) =>
             \A i \in 1..Len(run.recaps) : run.recaps[i].to # run.chat

\* the subscribers of the run whose membership check returned a status
\* outside {Creator, Administrator, Member, Restricted}
Disallowed(r) ==
    { i \in 1..Len(r.memberResults) :
        r.memberResults[i] \notin {"err", "administrator", "creator", "member", "restricted"} }

\* those of them whose turn of the loop over the subscribers is over
DisallowedDone(r) == { i \in Disallowed(r) : i < r.subIdx }

\* the entry k of the removal log is complete: the notice that follows the
\* unsubscribe calls was attempted
RemovalDone(r, k) == k < Len(r.removals) \/ r.pc # "notice"

\* the entries of the removal log about subscriber u
RemovalsOf(r, u) == { k \in 1..Len(r.removals) : r.removals[k].user = u }

\* the times subscriber u left the store in the run
TimesRemoved(r, u) ==
    Cardinality({ k \in RemovalsOf(r, u) : r.removals[k].removed = 1 })

NoRecapTo(r, u) ==
    /\ \A k \in 1..Len(r.targets) : r.targets[k].id # u
    /\ \A k \in 1..Len(r.sendAttempts) : r.sendAttempts[k].to # u
    /\ \A k \in 1..Len(r.recaps) : r.recaps[k].to # u

\* C21, as claimed: a subscriber whose membership check returned a
\* disallowed status receives no recap message in the run and is removed
\* from the subscriber store exactly once.
C21_DisallowedRemovedOnce ==
    run.pc # "none" =>
      \A i \in DisallowedDone(run) :
        /\ NoRecapTo(run, run.subscribers[i])
        /\ TimesRemoved(run, run.subscribers[i]) = 1

\* C21, as the code has it: a subscriber whose membership check returned a
\* disallowed status receives no recap message in the run and is removed
\* from the subscriber store at most once: once when one of the at most
\* 1000 unsubscribe calls succeeds, not at all when all 1000 fail.
C21_DisallowedRemovedAtMostOnce ==
    run.pc # "none" =>
      \A i \in DisallowedDone(run) :
        LET u == run.subscribers[i]
        IN  /\ NoRecapTo(run, u)
            /\ Cardinality(RemovalsOf(run, u)) = 1
            /\ \A k \in RemovalsOf(run, u) :
                 /\ run.removals[k].calls <= UnsubscribeAttempts
                 /\ run.removals[k].removed = 0 => run.removals[k].calls = UnsubscribeAttempts
                 /\ run.removals[k].removed \in {0, 1}

C21_Witness ==
    /\ Finished /\ run.outcome = "completed"
    /\ run.subscribers = <<11, 12>> /\ run.memberResults = <<"left", "member">>
    /\ TimesRemoved(run, 11) = 1
    /\ \E k \in 1..Len(run.recaps) : run.recaps[k].to = 12

\* C22, as claimed: for a subscriber with a disallowed status the run
\* calls unsubscribe at most 1000 times, one minute apart, stopping at the
\* first success, and the subscriber is sent the removal notice once only:
\* one notice in the run, and none in a later run, which sends one to every
\* subscriber it still finds in the store with a disallowed status.
C22_UnsubscribeAndNotifyOnce ==
    run.pc # "none" =>
      \A k \in 1..Len(run.removals) :
        LET e == run.removals[k]
        IN  /\ e.calls >= 1 /\ e.calls <= UnsubscribeAttempts
            /\ e.wait = (e.calls - 1) * UnsubscribeDelay
            /\ e.calls < UnsubscribeAttempts => e.removed = 1
            /\ RemovalDone(run, k) => e.noticeSends = 1
            /\ e.removed = 1

\* C23, as claimed: every send of the run, recap or removal notice, comes
\* after a Take on the limiter of its own.
C23_EverySendTakes ==
    run.pc # "none" => Len(run.sendAttempts) + run.noticeSends <= run.takes
\* C25, as claimed: the pin step (unpin of the previous message, pin of the
\* new one, record as pinned) is executed only for the message sent to the
\* group, only for the first batch and only when pinEnabled is true, and
\* never for a message sent to a private subscriber.
C25_PinStepGroupFirstBatchOnly ==
    (run.pc # "none" /\ (run.step.pinStep \/ run.step.pinCalled \/ run.step.recordPinned)) =>
        /\ ~run.step.private /\ run.step.to = run.chat
        /\ run.step.b = 1
        /\ run.options.pin

\* the delivery records marked pinned of chat c
PinnedOf(r, c) == { k \in 1..Len(r.pinnedRecs) : r.pinnedRecs[k].chat = c }

\* C26, as claimed: in every reachable state at most one delivery record
\* per chat is marked pinned, also when the unpin, the record update or the
\* pin call fails.
C26_OnePinnedRecordPerChat ==
    run.pc # "none" =>
        \A c \in Chats \cup Users : Cardinality(PinnedOf(run, c)) <= 1

\* C27, as claimed: every recap message that was sent gets exactly one
\* persisted delivery record, whose pinned flag is true exactly when the
\* message was pinned in this run.
C27_OneRecordPerSentMessage ==
    (run.pc # "none" /\ (run.step.over \/ Finished) /\ run.step.sent) =>
        /\ run.step.records = 1
        /\ run.step.recordPinned <=> run.step.pinned

\* C28, as claimed: when FindLastTelegramPinnedMessage fails the pin step
\* is skipped (no unpin, no pin, no record written as pinned) and the run
\* goes on with the remaining targets and batches.
C28_LookupFailureSkipsPinStep ==
    (run.pc # "none" /\ run.step.lookup = "failed") =>
        /\ ~run.step.unpinCalled /\ ~run.step.updateCalled /\ ~run.step.pinCalled
        /\ ~run.step.recordPinned
        /\ run.outcome # "panic"

HasAttempt(r, b, to) ==
    \E k \in 1..Len(r.sendAttempts) : r.sendAttempts[k] = [b |-> b, to |-> to]

\* the loop over the targets came to target k of batch b
Handled(r, b, k) ==
    \/ r.outcome = "completed"
    \/ b < r.bi
    \/ b = r.bi /\ k <= r.tgtIdx

\* C29, as claimed: a failure while one target is handled never prevents a
\* send attempt to each of the other targets, for every batch whose page
\* was published: a target of a published batch is without a send attempt
\* only by a failure of its own handling.
C29_FailureStaysWithItsTarget ==
    Finished =>
        \A b \in run.published, k \in 1..Len(run.targets) :
            HasAttempt(run, b, run.targets[k].id) \/ Handled(run, b, k)

\* the send attempts of n batches to the targets ts, in batch order
ExpectedAttempts(n, ts) ==
    [ k \in 1..(n * Len(ts)) |->
        [ b |-> ((k - 1) \div Len(ts)) + 1, to |-> ts[((k - 1) % Len(ts)) + 1].id ] ]

\* C30, as claimed: with N batches and T targets every batch is delivered
\* to every target in batch order, N times T send attempts, and the message
\* of batch k carries the suffix (k/N) when N > 1 and none when N = 1.
C30_EveryBatchToEveryTarget ==
    (Finished /\ ~EndedBeforeTargets(run) /\ ~run.options.isNil) =>
        /\ run.sendAttempts = ExpectedAttempts(Len(run.batches), run.targets)
        /\ \A k \in 1..Len(run.recaps) :
             run.recaps[k].suffix =
                 IF Len(run.batches) > 1
                 THEN <<run.recaps[k].b, Len(run.batches)>> ELSE <<0, 0>>
\* C24, as claimed: the runs in flight share one rate limiter, so that
\* over all chats and targets at most 5 sends start within one second.
C24_FiveSendsPerSecond == Len(sends) <= TakesPerSecond
\* the firing read private-only options and an empty subscriber list
PrivateOnlyNoSubscribers(f) ==
    /\ ~f.options.isNil
    /\ f.options.mode = AutoRecapSendModeOnlyPrivateSubscriptions
    /\ f.subscribers = <<>>

\* C32: when the send mode read for the firing is private-only and the
\* subscriber list read for it is empty, the handler dispatches no run:
\* no summarization call, no page and no message.
C32_PrivateOnlyWithoutSubscribersSkips ==
    \A i \in Invokers :
        (h[i].pc = "returned" /\ PrivateOnlyNoSubscribers(h[i])) =>
            /\ ~h[i].dispatched
            /\ run.pc = "none"
            /\ inflight[h[i].chat] = 0

C32_Witness ==
    LET t == h["test"]
    IN  /\ t.pc = "returned" /\ PrivateOnlyNoSubscribers(t)
        /\ t.enabled /\ ~t.subErr /\ t.schedCalls = 1 /\ ~t.dispatched

\* C36, as claimed: an invocation of the handler calls the schedule
\* operation at most once, also when a read failed after its retries
\* while recap is enabled.
C36_AtMostOneSchedule == \A i \in Invokers : h[i].schedCalls <= 1

\* C37, as claimed: a run is dispatched only with options present, so no
\* run crashes on absent options.
C37_NoRunWithoutOptions ==
    /\ \A i \in Invokers : h[i].dispatched => ~h[i].options.isNil
    /\ run.pc # "none" => (~run.options.isNil /\ run.outcome # "panic")
\* C35, as claimed: in CreatePage and EditPage no remote request is made
\* once an attempt has succeeded, so a successful CreatePage call creates
\* exactly one remote page.
C35_NoRequestAfterSuccess ==
    call.pc \in {"run", "returned"} =>
        /\ \A j \in 1..call.k, m \in 1..call.k : j < m => ~call.oks[j]
        /\ (call.op = "create" /\ call.pc = "returned" /\ ~call.err) =>
              Cardinality({ j \in 1..call.k : call.oks[j] }) = 1

\* C38, as claimed: when the send of the recap message to a target fails,
\* nothing is recorded or pinned for it: no delivery record is written and
\* the pin step, which unpins the message pinned before, is not executed.
C38_FailedSendLeavesNoTrace ==
    (run.pc # "none" /\ run.step.took /\ "send" \in run.step.faults) =>
        /\ ~run.step.sent
        /\ run.step.records = 0
        /\ ~run.step.pinStep /\ ~run.step.unpinCalled /\ ~run.step.updateCalled
        /\ ~run.step.recordPinned

\* the subscribers of the run whose membership query failed
QueryFailed(r) == { i \in 1..Len(r.memberResults) : r.memberResults[i] = "err" }

\* C39: a subscriber whose membership query failed receives no recap in
\* the run, is not unsubscribed and receives no removal notice, and the
\* subscribers after it are processed as usual: a member among them is a
\* target.
C39_FailedQuerySkipsSubscriber ==
    run.pc # "none" =>
        /\ \A i \in QueryFailed(run) :
             LET u == run.subscribers[i]
             IN  /\ NoRecapTo(run, u)
                 /\ RemovalsOf(run, u) = {}
                 /\ \A k \in 1..Len(run.notices) : run.notices[k] # u
        /\ run.unsubCalls > 0 => Disallowed(run) # {}
        /\ \A j \in 1..Len(run.memberResults) :
             run.memberResults[j] = "member" =>
                 \E k \in 1..Len(run.targets) : run.targets[k] = PrivateTarget(run.subscribers[j])

C39_Witness ==
    /\ Finished /\ run.outcome = "completed"
    /\ run.subscribers = <<11, 12>> /\ run.memberResults = <<"err", "member">>
    /\ \E k \in 1..Len(run.recaps) : run.recaps[k].to = 12
    /\ \A k \in 1..Len(run.sendAttempts) : run.sendAttempts[k].to # 11

\* C40, as claimed: the removal notice is sent to a subscriber only if the
\* unsubscribe succeeded; a subscriber still in the store after every
\* unsubscribe attempt failed is not told that they were unsubscribed.
C40_NoticeOnlyAfterRemoval ==
    run.pc # "none" =>
        \A k \in 1..Len(run.removals) :
            run.removals[k].removed = 0 => run.removals[k].noticeSends = 0
\* C33: a recap message of a batch is sent to a target only after the page
\* of the batch was created, and a batch whose publishing failed after its
\* retries is sent to no target.
C33_SendOnlyAfterPublish ==
    run.pc # "none" =>
        /\ \A k \in 1..Len(run.sendAttempts) : run.sendAttempts[k].b \in run.published
        /\ run.step.took => run.step.b \in run.published
        /\ run.pc = "send" => run.bi \in run.published

C33_Witness ==
    /\ Finished /\ run.outcome = "completed"
    /\ Len(run.batches) = 2 /\ run.published = {2}
    /\ Len(run.targets) = 2
    /\ run.sendAttempts = [k \in 1..2 |-> [b |-> 2, to |-> run.targets[k].id]]
\* the chat of the end-to-end case: four recaps a day, sent publicly and
\* pinned, no subscribers, at least 6 messages in the window
EndToEndCase(r) ==
    /\ r.options = Opt(AutoRecapSendModePublicly, 4, TRUE)
    /\ r.subscribers = <<>>
    /\ r.nHist >= 6

\* every external call of the run succeeded: none returned an error, the
\* summaries handed back make one message group, and the lookup of the
\* message pinned before handed back a record
AllCallsSucceeded(r) ==
    /\ r.outcome \in {"completed", "panic"}
    /\ Len(r.batches) = 1
    /\ r.condenseCalls = 1 /\ ~r.condenseErr
    /\ r.step.took /\ r.step.faults = {}
    /\ r.step.lookup \in {"found", "missing"} /\ r.outcome # "panic"

C34_RunTerminates == (run.pc = "start") ~> Finished

\* a run that came to its end after a thousand unsubscribe calls, a series
\* of pages created by CreatePageSeries and the edit of each of its pages
C34_Witness ==
    /\ Finished /\ run.outcome = "completed"
    /\ run.unsubCalls = UnsubscribeAttempts
    /\ Len(run.batches) = 2 /\ run.published = {1, 2}
    /\ run.editCalls >= 2
    /\ Len(run.sendAttempts) = 2 * Len(run.targets)
====
